---- MODULE Spec2Model ----
(***************************************************************************)
(* Extraction-and-reconciliation pipeline of the notes application:        *)
(* ExtractionOrchestrator.extract(text, mode) and                          *)
(* ReconciliationEngine.apply(noteId, result) over the shared store        *)
(* (tags, note_tags, action_items).                                        *)
(*                                                                         *)
(* Strings are sequences of character codes (ASCII), so that case folding, *)
(* trimming and marker stripping are computed and not assumed.             *)
(***************************************************************************)
EXTENDS Integers, Sequences, FiniteSets, Bags, TLC

(* ---------------------------- bounds ----------------------------------- *)
\* number of requests (extract and/or apply) the callers start in one run
MaxCalls == 3

\* number of requests one component of the page sends in one run
MaxRequests == 3

(* ------------------------- program constants --------------------------- *)
\* ActionItem.description: 1-1000 characters
MaxDescLen == 1000

(* ------------------------------ strings -------------------------------- *)
SP == 32
NL == 10

IsSpace(c) == c \in {9, 10, 13, 32}

ToLower(c) == IF c \in 65..90 THEN c + 32 ELSE c

\* lower(name): the case folding of the case-insensitive tag lookup
CaseFold(s) == [k \in 1..Len(s) |-> ToLower(s[k])]

RECURSIVE LStrip(_)
LStrip(s) == IF s # <<>> /\ IsSpace(Head(s)) THEN LStrip(Tail(s)) ELSE s

RECURSIVE RStrip(_)
RStrip(s) ==
  IF s # <<>> /\ IsSpace(s[Len(s)]) THEN RStrip(SubSeq(s, 1, Len(s) - 1)) ELSE s

\* str.strip()
Trim(s) == RStrip(LStrip(s))

\* a run of n copies of the character c
Repeat(c, n) == [k \in 1..n |-> c]


(* --------------------------- TextNormalizer ---------------------------- *)
IsWordChar(c) == c \in 48..57 \/ c \in 65..90 \/ c \in 97..122 \/ c = 95

IsDigit(c) == c \in 48..57

Drop(s, n) == SubSeq(s, n + 1, Len(s))

StartsWith(s, pre) == Len(s) >= Len(pre) /\ SubSeq(s, 1, Len(pre)) = pre

\* the prefix test of a case-insensitive pattern
StartsWithFold(s, pre) ==
  Len(s) >= Len(pre) /\ CaseFold(SubSeq(s, 1, Len(pre))) = CaseFold(pre)

RECURSIVE SplitLines(_)
SplitLines(s) ==
  IF \A k \in 1..Len(s) : s[k] # NL
    THEN <<s>>
    ELSE LET k == CHOOSE k \in 1..Len(s) :
                    s[k] = NL /\ \A m \in 1..(k - 1) : s[m] # NL
         IN <<SubSeq(s, 1, k - 1)>> \o SplitLines(Drop(s, k))

NonEmpty(l) == l # <<>>

\* the trimmed, non-empty lines of the text, in order
NormalizeLines(text) ==
  LET ls == SplitLines(text) IN
  SelectSeq([k \in 1..Len(ls) |-> Trim(ls[k])], NonEmpty)

\* the longest prefix of word characters
RECURSIVE WordRun(_)
WordRun(s) ==
  IF s # <<>> /\ IsWordChar(Head(s)) THEN <<Head(s)>> \o WordRun(Tail(s)) ELSE <<>>

\* the inline tag tokens: '#' followed by one or more word characters
RECURSIVE ScanTags(_)
ScanTags(s) ==
  IF s = <<>> THEN <<>>
  ELSE IF Head(s) = 35
    THEN LET run == WordRun(Tail(s)) IN
         IF run = <<>> THEN ScanTags(Tail(s))
         ELSE <<run>> \o ScanTags(Drop(s, 1 + Len(run)))
    ELSE ScanTags(Tail(s))

\* a deduplication that keeps the casing seen last
RECURSIVE DedupFoldLastCasing(_)
DedupFoldLastCasing(q) ==
  IF q = <<>> THEN <<>>
  ELSE LET init == DedupFoldLastCasing(SubSeq(q, 1, Len(q) - 1))
           x == q[Len(q)]
       IN IF \E k \in 1..Len(init) : CaseFold(init[k]) = CaseFold(x)
            THEN [k \in 1..Len(init) |->
                    IF CaseFold(init[k]) = CaseFold(x) THEN x ELSE init[k]]
            ELSE Append(init, x)

\* tag candidates: distinct ignoring case, first occurrence and first casing kept
RECURSIVE DedupFold(_)
DedupFold(q) ==
  IF q = <<>> THEN <<>>
  ELSE LET init == DedupFold(SubSeq(q, 1, Len(q) - 1))
           x == q[Len(q)]
       IN IF \E k \in 1..Len(init) : CaseFold(init[k]) = CaseFold(x)
            THEN init ELSE Append(init, x)

\* a pass that trims the candidates and drops none
TrimEach(q) == [k \in 1..Len(q) |-> Trim(q[k])]

\* action-item candidates: trimmed, distinct, first occurrence kept
RECURSIVE DedupExact(_)
DedupExact(q) ==
  IF q = <<>> THEN <<>>
  ELSE LET init == DedupExact(SubSeq(q, 1, Len(q) - 1))
           x == Trim(q[Len(q)])
       IN IF \E k \in 1..Len(init) : init[k] = x THEN init ELSE Append(init, x)

(* -------------------------- HeuristicExtractor ------------------------- *)
\* "- [ ]", "- [x]", "[ ]", "[x]", "[TODO]"
CheckboxMarkers == {<<45, 32, 91, 32, 93>>, <<45, 32, 91, 120, 93>>, <<91, 32, 93>>, <<91, 120, 93>>, <<91, 84, 79, 68, 79, 93>>}

\* "TODO:", "Action:", "Next:"
KeywordPrefixes == {<<84, 79, 68, 79, 58>>, <<65, 99, 116, 105, 111, 110, 58>>, <<78, 101, 120, 116, 58>>}

\* add, create, implement, fix, update, write, check, verify,
\* refactor, document, design, investigate, deploy, review, call
ImperativeVerbs == {<<97, 100, 100>>,
                    <<99, 114, 101, 97, 116, 101>>,
                    <<105, 109, 112, 108, 101, 109, 101, 110, 116>>,
                    <<102, 105, 120>>,
                    <<117, 112, 100, 97, 116, 101>>,
                    <<119, 114, 105, 116, 101>>,
                    <<99, 104, 101, 99, 107>>,
                    <<118, 101, 114, 105, 102, 121>>,
                    <<114, 101, 102, 97, 99, 116, 111, 114>>,
                    <<100, 111, 99, 117, 109, 101, 110, 116>>,
                    <<100, 101, 115, 105, 103, 110>>,
                    <<105, 110, 118, 101, 115, 116, 105, 103, 97, 116, 101>>,
                    <<100, 101, 112, 108, 111, 121>>,
                    <<114, 101, 118, 105, 101, 119>>,
                    <<99, 97, 108, 108>>}

IsCheckbox(l) == \E m \in CheckboxMarkers : StartsWithFold(l, m)

\* '-', '*' or the bullet character, then whitespace
IsBullet(l) == Len(l) >= 2 /\ l[1] \in {45, 42, 8226} /\ IsSpace(l[2])

RECURSIVE DigitRun(_)
DigitRun(s) ==
  IF s # <<>> /\ IsDigit(Head(s)) THEN <<Head(s)>> \o DigitRun(Tail(s)) ELSE <<>>

\* digits, '.', whitespace
IsNumbered(l) ==
  LET d == Len(DigitRun(l)) IN
  d >= 1 /\ Len(l) >= d + 2 /\ l[d + 1] = 46 /\ IsSpace(l[d + 2])

IsKeyword(l) == \E m \in KeywordPrefixes : StartsWithFold(l, m)

RECURSIVE FirstWord(_)
FirstWord(s) ==
  IF s # <<>> /\ ~IsSpace(Head(s)) THEN <<Head(s)>> \o FirstWord(Tail(s)) ELSE <<>>

IsImperative(l) == CaseFold(FirstWord(l)) \in ImperativeVerbs

\* the line without its checkbox, bullet, numbering or keyword marker (the
\* cleaning of the structured backend)
StripMarker(l) ==
  IF IsCheckbox(l)
    THEN Trim(Drop(l, Len(CHOOSE m \in CheckboxMarkers : StartsWithFold(l, m))))
  ELSE IF IsBullet(l) THEN Trim(Drop(l, 2))
  ELSE IF IsNumbered(l) THEN Trim(Drop(l, Len(DigitRun(l)) + 2))
  ELSE IF IsKeyword(l)
    THEN Trim(Drop(l, Len(CHOOSE m \in KeywordPrefixes : StartsWithFold(l, m))))
  ELSE l

HasMarker(l) == IsCheckbox(l) \/ IsBullet(l) \/ IsNumbered(l) \/ IsKeyword(l)

\* the rule backend's cleaning of an action line: the checkbox, bullet or
\* numbering marker is removed; a line with a keyword prefix is kept whole
\* ("TODO: Review code" stays "TODO: Review code")
CleanLine(l) ==
  IF IsCheckbox(l)
    THEN Trim(Drop(l, Len(CHOOSE m \in CheckboxMarkers : StartsWithFold(l, m))))
  ELSE IF IsBullet(l) THEN Trim(Drop(l, 2))
  ELSE IF IsNumbered(l) THEN Trim(Drop(l, Len(DigitRun(l)) + 2))
  ELSE l

\* the action-item candidates of the lines, in order: <<c>> or <<>> per line
RECURSIVE Candidates(_)
Candidates(ls) ==
  IF ls = <<>> THEN <<>>
  ELSE (IF HasMarker(Head(ls)) THEN <<CleanLine(Head(ls))>>
        ELSE IF IsImperative(Head(ls)) THEN <<Head(ls)>>
        ELSE <<>>) \o Candidates(Tail(ls))

\* the rule backend
HeuristicExtract(text) ==
  [tags |-> DedupFold(ScanTags(text)),
   action_items |-> DedupExact(Candidates(NormalizeLines(text)))]

(* -------------------------- StructuredExtractor ------------------------ *)
\* a JSON value of the reply: an array of strings, a string or null
JArray(items) == [type |-> "array", items |-> items]

JString(chars) == [type |-> "string", items |-> <<chars>>]

JNull == [type |-> "null", items |-> <<>>]

\* what the inference endpoint does with the request
Refused == [kind |-> "refused", json |-> FALSE, tags |-> JNull, action_items |-> JNull]

TimedOut == [kind |-> "timeout", json |-> FALSE, tags |-> JNull, action_items |-> JNull]

\* a reply whose body is not JSON
Garbled == [kind |-> "reply", json |-> FALSE, tags |-> JNull, action_items |-> JNull]

\* a reply whose body is the JSON object {tags: t, action_items: a}
Reply(t, a) == [kind |-> "reply", json |-> TRUE, tags |-> t, action_items |-> a]

NoResponse == [kind |-> "none", json |-> FALSE, tags |-> JNull, action_items |-> JNull]

EmptyResult == [tags |-> <<>>, action_items |-> <<>>]

\* a validation that only asks for JSON
SchemaValidAnyJson(resp) == resp.json

\* the reply is JSON and holds the two string arrays
SchemaValid(resp) ==
  resp.json /\ resp.tags.type = "array" /\ resp.action_items.type = "array"

\* the cleanup pass: markers the model echoed are stripped
Cleanup(items) == [k \in 1..Len(items) |-> StripMarker(Trim(items[k]))]

\* the structured backend's answer to one response: an error or a result
StructuredExtract(resp) ==
  IF resp.kind = "refused"
    THEN [err |-> "ExtractionBackendUnavailable", result |-> EmptyResult]
  ELSE IF resp.kind = "timeout"
    THEN [err |-> "ExtractionBackendTimeout", result |-> EmptyResult]
  ELSE IF ~SchemaValid(resp)
    THEN [err |-> "ExtractionParseError", result |-> EmptyResult]
  ELSE [err |-> "none",
        result |-> [tags |-> DedupFold(resp.tags.items),
                    action_items |-> DedupExact(Cleanup(resp.action_items.items))]]

ExtractionErrors ==
  {"ExtractionBackendUnavailable", "ExtractionBackendTimeout", "ExtractionParseError"}

(* ------------------------- ExtractionOrchestrator ---------------------- *)
Modes == {"rule", "llm", "default"}

\* a test for the empty string alone
IsEmptyInputExact(text) == text = <<>>

\* empty input: nothing but whitespace
IsEmptyInput(text) == Trim(text) = <<>>

\* a selection that reads the configuration in every mode
SelectBackendFromConfig(cfg, mode) == cfg.default_backend

\* the backend a mode selects under the configuration
SelectBackend(cfg, mode) == IF mode = "default" THEN cfg.default_backend ELSE mode

\* an orchestrator that swallows a backend error without consulting the policy
OrchestrateSwallowing(cfg, text, r) ==
  IF r.err = "none" THEN r ELSE [err |-> "none", result |-> EmptyResult]

\* the orchestrator's answer when the backend answered r for the text
Orchestrate(cfg, text, r) ==
  IF r.err = "none" THEN r
  ELSE IF cfg.fallback THEN [err |-> "none", result |-> HeuristicExtract(text)]
  ELSE r

(* ------------------------------ getTagColor ---------------------------- *)
\* hash is a JavaScript number holding an integer that may leave the 32-bit
\* range: it is kept as hi * Word + lo with 0 <= lo < Word, hi of either sign
Word == 65536

Norm(hi, lo) == [hi |-> hi + (lo \div Word), lo |-> lo % Word]

Zero == Norm(0, 0)

\* ToInt32 of the bitwise operators: the value modulo 2^32 read as signed
ToInt32(n) ==
  LET h == n.hi % Word
  IN  [hi |-> IF h >= Word \div 2 THEN h - Word ELSE h, lo |-> n.lo]

\* hash << 5
ShiftLeft5(n) ==
  LET low == n.lo * 32
      high == ((n.hi % Word) * 32 + (low \div Word)) % Word
  IN  ToInt32([hi |-> high, lo |-> low % Word])

\* hash >> k for k = 8, 16: the arithmetic shift of ToInt32(hash)
ShiftRight8(n) == LET s == ToInt32(n) IN s.hi * 256 + (s.lo \div 256)

ShiftRight16(n) == ToInt32(n).hi

\* a - b and a + c in double arithmetic, exact for the integers of these names
Minus(a, b) == Norm(a.hi - b.hi, a.lo - b.lo)

Plus(c, a) == Norm(a.hi, a.lo + c)

\* the remainder operator: the result has the sign of the dividend
Rem(a, b) == IF a >= 0 THEN a % b ELSE 0 - ((0 - a) % b)

\* hash % 360
Rem360(n) ==
  LET m == ((n.hi % 360) * (Word % 360) + n.lo) % 360
  IN  IF n.hi < 0 /\ m # 0 THEN m - 360 ELSE m

AbsIdentity(x) == x

\* Math.abs
Abs(x) == IF x < 0 THEN 0 - x ELSE x

\* one iteration of the loop over the name's char codes
HashChar(hash, c) == Plus(c, Minus(ShiftLeft5(hash), hash))

\* the three numbers of the hsl(...) string returned
ColorOf(hash) ==
  [hue |-> Abs(Rem360(hash)),
   saturation |-> 60 + Rem(Abs(ShiftRight8(hash)), 20),
   lightness |-> 85 + Rem(Abs(ShiftRight16(hash)), 10)]

(* ------------------------------ inputs --------------------------------- *)
\* the application's request workers
Procs == {1, 2, 3}

Workers == {1, 2}

NoteIds == {1, 2}

\* the notes the extract-then-apply flows work on
FlowNotes == {1}

\* tag names "A", "a", "b"
TagUpperA == <<65>>
TagLowerA == <<97>>
TagLowerB == <<98>>

\* action-item descriptions: "x", " " (blank), 1001 characters
DescX == <<120>>
DescBlank == <<SP>>
DescTooLong == Repeat(120, MaxDescLen + 1)

\* extraction results handed to apply() directly
ApplyResults ==
  { [tags |-> <<TagLowerA>>, action_items |-> <<DescX>>],
    [tags |-> <<TagLowerB, TagUpperA>>, action_items |-> <<>>],
    [tags |-> <<TagLowerB>>, action_items |-> <<DescX, DescBlank>>],
    [tags |-> <<>>, action_items |-> <<DescTooLong, DescX>>] }

\* note texts: "TODO: x\n#A", "#a #A\nfix"
Texts == {<<84, 79, 68, 79, 58, 32, 120, 10, 35, 65>>,
          <<35, 97, 32, 35, 65, 10, 102, 105, 120>>}

\* the texts of the extraction checks: the note texts and
\* "- [ ] Buy milk", "1. fix #a\nnote #A #b", "* x\n- x\nx", "[x] a\nJust text",
\* " \n", ""
ExtractTexts ==
  Texts \cup
  {<<45, 32, 91, 32, 93, 32, 66, 117, 121, 32, 109, 105, 108, 107>>,
   <<49, 46, 32, 102, 105, 120, 32, 35, 97, 10, 110, 111, 116, 101, 32, 35, 65, 32, 35, 98>>,
   <<42, 32, 120, 10, 45, 32, 120, 10, 120>>,
   <<91, 120, 93, 32, 97, 10, 74, 117, 115, 116, 32, 116, 101, 120, 116>>,
   <<32, 10>>,
   <<>>}

\* what the endpoint may answer; the last reply is
\* {tags: ["b", "B"], action_items: ["- x", "x"]}
Responses ==
  { Refused, TimedOut, Garbled,
    Reply(JString(TagLowerB), JArray(<<DescX>>)),
    Reply(JArray(<<TagLowerB, <<66>>>>), JArray(<<<<45, SP, 120>>, DescX>>)) }

\* the action items shown as cards
ItemIds == {1, 2}

\* what is typed into a field of the NoteForm: "", " ", "a", " a "
FieldValues == {<<>>, <<SP>>, <<97>>, <<SP, 97, SP>>}

\* what is typed as the new tag name: "", " a ", "A", "a b", "#a", "b"
TagNameInputs == {<<>>, <<SP, 97, SP>>, <<65>>, <<97, SP, 98>>, <<35, 97>>, <<98>>}

\* what tagsApi.list resolves to: no tag, or the tag "a"
ServerTagLists == {<<>>, <<[id |-> 1, name |-> <<97>>]>>}

\* tag names given to getTagColor: "", "work", "urgent" and
\* "tag-with-special-_chars_123"; the hash of "urgent" ends negative, the hash
\* of the last name leaves the 32-bit range
ColorNames ==
  { <<>>, <<119, 111, 114, 107>>, <<117, 114, 103, 101, 110, 116>>,
    <<116, 97, 103, 45, 119, 105, 116, 104, 45, 115, 112, 101, 99, 105,
      97, 108, 45, 95, 99, 104, 97, 114, 115, 95, 49, 50, 51>> }

\* the tags of the page and the notes the server may hold: a note is
\* [id, title, tags], tags the ids of its tags
TagIds == {1, 2}

NoteA == [id |-> 1, title |-> <<110>>, tags |-> {1}]

NoteB == [id |-> 2, title |-> <<110>>, tags |-> {1, 2}]

\* the items of a notesApi.list or notesApi.search response
ServerNoteLists == {<<>>, <<NoteA>>, <<NoteA, NoteB>>}

\* the search box: empty or "a"
Queries == {<<>>, <<97>>}

\* the total of a search response, on one page or on two
SearchTotals == {1, 11}

\* the title a NoteCard saves
EditedTitle == <<101>>

\* the id Date.now() gives a temporary entry and the title typed in the form
TempNote == [id |-> 9, title |-> <<116>>, tags |-> {}]

\* the note notesApi.create resolves with
CreatedNote == [id |-> 3, title |-> <<116>>, tags |-> {}]

\* results with one tag name, "A" or "a"
RaceResults ==
  { [tags |-> <<TagUpperA>>, action_items |-> <<>>],
    [tags |-> <<TagLowerA>>, action_items |-> <<>>] }

(* ------------------------------- state --------------------------------- *)
VARIABLES
  tags,          \* table tags: committed rows [id, name]
  note_tags,     \* table note_tags: committed rows <<note_id, tag_id>>, a bag
  action_items,  \* table action_items: committed rows [id, note_id, description]
  writeLock,     \* the worker holding the database write lock, 0 if none
  config,        \* injected configuration: [default_backend, fallback]
  pc,            \* position of each request worker
  call,          \* the request each worker serves
  tx,            \* the transaction of each worker: position and pending writes
  outcome,       \* what the worker's call returned or raised
  calls,         \* requests started so far
  last,          \* the apply() committed last: [note_id, result], seq counts the commits
  cards,         \* the ActionItemCard of each action item: its item prop and state
  noteForm,      \* the NoteForm: its fields, isSubmitting and the onSubmit call
  tagManager,    \* the TagManager: its state and the tagsApi calls
  tagColor,      \* the calls of getTagColor: the running call and the colours returned
  notesList,     \* the NotesList: its state, its effect and the notesApi calls
  itemsList      \* the ActionItemsList: its state and the actionItemsApi calls

vars == <<tags, note_tags, action_items, writeLock, config, pc, call, tx, outcome,
          calls, last, cards, noteForm, tagManager, tagColor, notesList, itemsList>>

\* the state of the server side
backend == <<tags, note_tags, action_items, writeLock, config, pc, call, tx, outcome,
             calls, last>>

\* the state of the page's components
frontend == <<cards, noteForm, tagManager, tagColor, notesList, itemsList>>

store == <<tags, note_tags, action_items>>

NoCall == [note_id |-> 0, result |-> EmptyResult, text |-> <<>>, mode |-> "none",
           backend |-> "none", response |-> NoResponse, inflight |-> FALSE, requests |-> 0]

\* since is the number of commits the store had seen when the transaction began
NoTx == [open |-> FALSE, since |-> 0, i |-> 1, j |-> 1, tag |-> 0, created |-> {},
         attached |-> {}, items |-> {}, conflicts |-> 0]

NoApply == [note_id |-> 0, result |-> EmptyResult, seq |-> 0]

TxPcs == {"tag_lookup", "tag_insert", "tag_retry", "tag_attach", "item_create", "commit"}

Configs == [default_backend : {"rule", "llm"}, fallback : BOOLEAN]

\* an ActionItemCard as mounted: item is the prop, pending counts the
\* onComplete promises that have not settled, called the calls of onComplete
NoCard == [completed |-> FALSE, isCompleting |-> FALSE, pending |-> 0, called |-> 0]

\* the NoteForm as mounted; pending holds the note of the onSubmit call that
\* has not settled, settled tells how the last call ended
NoForm == [title |-> <<>>, content |-> <<>>, isSubmitting |-> FALSE, pending |-> <<>>,
           submitted |-> 0, settled |-> "none", toast |-> "none"]

\* the TagManager as mounted; creating holds the name of the tagsApi.create
\* call that has not settled, loading tells that a tagsApi.list call of the
\* current expansion has not settled; deleting holds the ids of the
\* tagsApi.delete calls that have not settled, deleted the ids onTagDeleted was
\* called with, answer the last answer to window.confirm and how the request
\* it allowed has ended
NoManager == [tags |-> <<>>, isLoading |-> TRUE, error |-> FALSE, isCreating |-> FALSE,
              newTagName |-> <<>>, deletingTagIds |-> {}, isExpanded |-> FALSE,
              loading |-> FALSE, creating |-> <<>>, requests |-> 0, toast |-> "none",
              deleting |-> {}, deleted |-> {}, answer |-> "none"]

\* no call of getTagColor is running and none has returned
NoColor == [name |-> <<>>, i |-> 0, hash |-> Zero, running |-> FALSE, calls |-> 0,
            returned |-> {}]

\* the NotesList after its first render and effect: the load is scheduled by
\* setTimeout (timer); loads are the list and search requests in flight, each
\* with the values its effect closed over and whether its effect was cleaned
\* up; ops are the create, update and delete requests in flight; retried tells
\* that the handler that ran last was handleRetry, ignored that the load that
\* settled last found its signal aborted
NoNotesList == [notes |-> <<>>, isLoading |-> TRUE, error |-> FALSE, searchQuery |-> <<>>,
                currentPage |-> 1, totalResults |-> 0, selectedTagIds |-> <<>>,
                filterMode |-> "OR", timer |-> TRUE, loads |-> {}, ops |-> {},
                sent |-> 0, retried |-> FALSE, ignored |-> FALSE]

\* the ActionItemsList after its first render and effect, which has called
\* loadItems; loads are the list requests in flight, each with its completed
\* parameter and what its caller does when loadItems returns; completes and
\* bulks are the complete and bulk-complete requests in flight, each with the
\* filter its handler closed over; sent counts the requests sent since; server
\* tells which items the server holds as completed, ended how the bulk
\* completion ended that the last step ended
NoItemsList == [items |-> <<>>, isLoading |-> TRUE, error |-> FALSE, filter |-> "all",
                selectedIds |-> {}, isBulkCompleting |-> FALSE,
                loads |-> {[param |-> "all", then |-> "none"]}, completes |-> {},
                bulks |-> {}, sent |-> 0, server |-> [i \in ItemIds |-> FALSE],
                ended |-> "none"]

FrontendInit ==
  /\ cards = [i \in ItemIds |-> NoCard]
  /\ noteForm = NoForm
  /\ tagManager = NoManager
  /\ tagColor = NoColor
  /\ notesList = NoNotesList
  /\ itemsList = NoItemsList

BackendInit(cfgs) ==
  /\ tags = {}
  /\ note_tags = EmptyBag
  /\ action_items = {}
  /\ writeLock = 0
  /\ config \in cfgs
  /\ pc = [p \in Procs |-> "idle"]
  /\ call = [p \in Procs |-> NoCall]
  /\ tx = [p \in Procs |-> NoTx]
  /\ outcome = [p \in Procs |-> "none"]
  /\ calls = 0
  /\ last = NoApply

InitWith(cfgs) == BackendInit(cfgs) /\ FrontendInit

Init == InitWith(Configs)

(* --------------------------- lists of entries -------------------------- *)
\* prev.filter((entry) => entry.id !== id)
WithoutId(list, id) == LET Other(e) == e.id # id IN SelectSeq(list, Other)

\* prev.map((e) => (e.id === id ? entry : e))
ReplaceId(list, id, entry) ==
  [k \in 1..Len(list) |-> IF list[k].id = id THEN entry ELSE list[k]]

HasId(list, id) == \E k \in 1..Len(list) : list[k].id = id

(* ------------------------- the store's rules --------------------------- *)
\* the rows a worker's statements see: the committed rows and its own pending ones
VisibleTags(p) == tags \cup tx[p].created

VisibleItems(p) == action_items \cup tx[p].items

\* SELECT ... WHERE lower(name) = lower(:name): the matching rows
MatchingTags(rows, name) == {r \in rows : CaseFold(r.name) = CaseFold(name)}

\* unique index ix_tags_name on tags(name): an insert of this exact name is
\* refused; the index on lower(name) is a plain expression index
UniqueViolation(rows, name) == \E r \in rows : r.name = name

\* the next row id of a table
NextId(rows) == IF rows = {} THEN 1 ELSE 1 + CHOOSE m \in {r.id : r \in rows} :
                                              \A r \in rows : r.id <= m

\* is the tag attached to the note, as this worker sees it
IsAttached(p, n, t) == BagIn(<<n, t>>, note_tags) \/ <<n, t>> \in tx[p].attached

\* a validation of the length alone
ValidDescriptionUntrimmed(d) == Len(d) >= 1 /\ Len(d) <= MaxDescLen

\* ActionItem.description: 1-1000 characters, not blank after trimming
ValidDescription(d) == Len(d) >= 1 /\ Len(d) <= MaxDescLen /\ Trim(d) # <<>>

\* the write lock is free or already this worker's
CanWrite(p) == writeLock \in {0, p}

CurTagName(p) == call[p].result.tags[tx[p].i]

CurDescription(p) == call[p].result.action_items[tx[p].j]

\* a rollback that keeps the tags the call created
RolledBackKeepingTags(p) == <<tags \cup tx[p].created, note_tags, action_items>>

\* the tables after a rollback: the pending writes are dropped
RolledBack(p) == store

\* the tables after a commit: the pending writes become visible
Committed(p) ==
  << tags \cup tx[p].created,
     note_tags (+) SetToBag(tx[p].attached),
     action_items \cup tx[p].items >>

(* ------------------- ExtractionOrchestrator.extract -------------------- *)
\* a request handler that opens its database transaction before it extracts
StartExtractInTransaction(p, text, mode) ==
  /\ pc[p] = "idle"
  /\ calls < MaxCalls
  /\ calls' = calls + 1
  /\ outcome' = [outcome EXCEPT ![p] = "none"]
  /\ tx' = [tx EXCEPT ![p] = [NoTx EXCEPT !.open = TRUE]]
  /\ call' = [call EXCEPT ![p] = [NoCall EXCEPT !.text = text, !.mode = mode,
                                     !.backend = "llm",
                                     !.inflight = TRUE, !.requests = 1]]
  /\ pc' = [pc EXCEPT ![p] = "llm_wait"]
  /\ UNCHANGED <<tags, note_tags, action_items, writeLock, config, frontend, last>>

\* extract(text, mode): the backend is selected; the rule backend answers at
\* once, the structured backend sends its one request to the endpoint
StartExtract(p, text, mode) ==
  /\ pc[p] = "idle"
  /\ calls < MaxCalls
  /\ calls' = calls + 1
  /\ outcome' = [outcome EXCEPT ![p] = "none"]
  /\ tx' = [tx EXCEPT ![p] = NoTx]
  /\ LET b == SelectBackend(config, mode) IN
     IF b = "rule"
       THEN /\ call' = [call EXCEPT ![p] = [NoCall EXCEPT !.text = text, !.mode = mode,
                                              !.backend = b,
                                              !.result = HeuristicExtract(text)]]
            /\ pc' = [pc EXCEPT ![p] = "extracted"]
     ELSE IF IsEmptyInput(text)
       THEN /\ call' = [call EXCEPT ![p] = [NoCall EXCEPT !.text = text, !.mode = mode,
                                              !.backend = b]]
            /\ pc' = [pc EXCEPT ![p] = "extracted"]
     ELSE /\ call' = [call EXCEPT ![p] = [NoCall EXCEPT !.text = text, !.mode = mode,
                                            !.backend = b,
                                            !.inflight = TRUE, !.requests = 1]]
          /\ pc' = [pc EXCEPT ![p] = "llm_wait"]
  /\ UNCHANGED <<tags, note_tags, action_items, writeLock, config, frontend, last>>

\* a structured backend that sends its request again when the first one failed
LlmReplyRetrying(p, resp) ==
  /\ pc[p] = "llm_wait"
  /\ LET r == StructuredExtract(resp) IN
     IF r.err # "none" /\ call[p].requests < 2
       THEN /\ call' = [call EXCEPT ![p].requests = @ + 1]
            /\ UNCHANGED <<pc, outcome>>
       ELSE /\ call' = [call EXCEPT ![p].response = resp, ![p].inflight = FALSE,
                                    ![p].result = r.result]
            /\ pc' = [pc EXCEPT ![p] = IF r.err = "none" THEN "extracted" ELSE "done"]
            /\ outcome' = [outcome EXCEPT ![p] = r.err]
  /\ UNCHANGED <<tags, note_tags, action_items, writeLock, config, frontend, tx, calls, last>>

\* the endpoint's response (or the timeout) ends the request; the structured
\* backend parses, validates and cleans it, the orchestrator applies the
\* fallback policy
LlmReply(p, resp) ==
  /\ pc[p] = "llm_wait"
  /\ LET r == Orchestrate(config, call[p].text, StructuredExtract(resp)) IN
     /\ call' = [call EXCEPT ![p].response = resp, ![p].inflight = FALSE,
                             ![p].result = r.result]
     /\ IF r.err = "none"
          THEN /\ pc' = [pc EXCEPT ![p] = "extracted"]
               /\ UNCHANGED outcome
          ELSE /\ pc' = [pc EXCEPT ![p] = "done"]
               /\ outcome' = [outcome EXCEPT ![p] = r.err]
  /\ UNCHANGED <<tags, note_tags, action_items, writeLock, config, frontend, tx, calls, last>>

\* a preview that stores the extracted action items
PreviewSavingItems(p) ==
  /\ pc[p] = "extracted"
  /\ pc' = [pc EXCEPT ![p] = "done"]
  /\ outcome' = [outcome EXCEPT ![p] = "ok"]
  /\ action_items' = action_items \cup
       {[id |-> k, note_id |-> 0, description |-> call[p].result.action_items[k]] :
          k \in 1..Len(call[p].result.action_items)}
  /\ UNCHANGED <<tags, note_tags, writeLock, config, frontend, call, tx, calls, last>>

\* the result goes back to the caller as a preview
Preview(p) ==
  /\ pc[p] = "extracted"
  /\ pc' = [pc EXCEPT ![p] = "done"]
  /\ outcome' = [outcome EXCEPT ![p] = "ok"]
  /\ UNCHANGED <<tags, note_tags, action_items, writeLock, config, frontend, call, tx, calls, last>>

(* ----------------------- ReconciliationEngine.apply -------------------- *)
\* apply(n, r) opens its transaction
OpenTransaction(p, n, r) ==
  /\ call' = [call EXCEPT ![p] = [NoCall EXCEPT !.note_id = n, !.result = r]]
  /\ tx' = [tx EXCEPT ![p] = [NoTx EXCEPT !.open = TRUE, !.since = last.seq]]
  /\ outcome' = [outcome EXCEPT ![p] = "none"]
  /\ pc' = [pc EXCEPT ![p] = "tag_lookup"]
  /\ UNCHANGED <<tags, note_tags, action_items, writeLock, config, frontend, last>>

\* the extraction result is handed to apply(noteId, result)
ApplyExtracted(p, n) ==
  /\ pc[p] = "extracted"
  /\ OpenTransaction(p, n, call[p].result)
  /\ UNCHANGED calls

\* apply(noteId, result) is called with a result of the caller's
BeginApply(p, n, r) ==
  /\ pc[p] = "idle"
  /\ calls < MaxCalls
  /\ calls' = calls + 1
  /\ OpenTransaction(p, n, r)

\* the transaction is aborted and the error is raised to the caller
Abort(p, err) ==
  /\ tags' = RolledBack(p)[1]
  /\ note_tags' = RolledBack(p)[2]
  /\ action_items' = RolledBack(p)[3]
  /\ writeLock' = IF writeLock = p THEN 0 ELSE writeLock
  /\ pc' = [pc EXCEPT ![p] = "done"]
  /\ outcome' = [outcome EXCEPT ![p] = err]
  /\ tx' = [tx EXCEPT ![p].open = FALSE, ![p].created = {}, ![p].attached = {},
                      ![p].items = {}]
  /\ UNCHANGED <<config, frontend, call, calls, last>>

\* the case-insensitive lookup of the next tag name; when several rows match,
\* the query resolves to one of them
TagLookup(p) ==
  /\ pc[p] = "tag_lookup"
  /\ IF tx[p].i > Len(call[p].result.tags)
       THEN /\ pc' = [pc EXCEPT ![p] = "item_create"]
            /\ UNCHANGED tx
       ELSE LET m == MatchingTags(VisibleTags(p), CurTagName(p)) IN
            IF m = {}
              THEN /\ pc' = [pc EXCEPT ![p] = "tag_insert"]
                   /\ UNCHANGED tx
              ELSE \E r \in m :
                     /\ tx' = [tx EXCEPT ![p].tag = r.id]
                     /\ pc' = [pc EXCEPT ![p] = "tag_attach"]
  /\ UNCHANGED <<tags, note_tags, action_items, writeLock, config, frontend, call, outcome,
                 calls, last>>

\* the optimistic insert of a tag the lookup did not find
TagInsert(p) ==
  /\ pc[p] = "tag_insert"
  /\ CanWrite(p)
  /\ writeLock' = p
  /\ IF UniqueViolation(VisibleTags(p), CurTagName(p))
       THEN /\ tx' = [tx EXCEPT ![p].conflicts = 1]
            /\ pc' = [pc EXCEPT ![p] = "tag_retry"]
       ELSE LET id == NextId(VisibleTags(p)) IN
            /\ tx' = [tx EXCEPT ![p].created = @ \cup {[id |-> id, name |-> CurTagName(p)]},
                                ![p].tag = id]
            /\ pc' = [pc EXCEPT ![p] = "tag_attach"]
  /\ UNCHANGED <<tags, note_tags, action_items, config, frontend, call, outcome, calls, last>>

\* after a uniqueness violation: the lookup-or-create is retried as a lookup
TagRetry(p) ==
  /\ pc[p] = "tag_retry"
  /\ LET m == MatchingTags(VisibleTags(p), CurTagName(p)) IN
     IF m = {}
       THEN Abort(p, "ReconciliationConflict")
       ELSE /\ \E r \in m : tx' = [tx EXCEPT ![p].tag = r.id]
            /\ pc' = [pc EXCEPT ![p] = "tag_attach"]
            /\ UNCHANGED <<tags, note_tags, action_items, writeLock, config, frontend, call,
                           outcome, calls, last>>

\* the resolved tag is attached to the note unless it is attached already
TagAttach(p) ==
  /\ pc[p] = "tag_attach"
  /\ IF IsAttached(p, call[p].note_id, tx[p].tag)
       THEN /\ tx' = [tx EXCEPT ![p].i = @ + 1]
            /\ UNCHANGED writeLock
       ELSE /\ CanWrite(p)
            /\ writeLock' = p
            /\ tx' = [tx EXCEPT ![p].i = @ + 1,
                                ![p].attached = @ \cup {<<call[p].note_id, tx[p].tag>>}]
  /\ pc' = [pc EXCEPT ![p] = "tag_lookup"]
  /\ UNCHANGED <<tags, note_tags, action_items, config, frontend, call, outcome, calls, last>>

\* the next action item is validated and created
ItemCreate(p) ==
  /\ pc[p] = "item_create"
  /\ IF tx[p].j > Len(call[p].result.action_items)
       THEN /\ pc' = [pc EXCEPT ![p] = "commit"]
            /\ UNCHANGED <<tags, note_tags, action_items, writeLock, config, frontend, call, tx,
                           outcome, calls, last>>
       ELSE IF ~ValidDescription(CurDescription(p))
         THEN Abort(p, "ValidationError")
         ELSE /\ CanWrite(p)
              /\ writeLock' = p
              /\ tx' = [tx EXCEPT ![p].j = @ + 1,
                          ![p].items = @ \cup {[id |-> NextId(VisibleItems(p)),
                                                note_id |-> call[p].note_id,
                                                description |-> CurDescription(p)]}]
              /\ UNCHANGED <<tags, note_tags, action_items, config, frontend, pc, call, outcome,
                             calls, last>>

\* the transaction commits: every pending write becomes visible at once
Commit(p) ==
  /\ pc[p] = "commit"
  /\ CanWrite(p)
  /\ tags' = Committed(p)[1]
  /\ note_tags' = Committed(p)[2]
  /\ action_items' = Committed(p)[3]
  /\ writeLock' = 0
  /\ pc' = [pc EXCEPT ![p] = "done"]
  /\ outcome' = [outcome EXCEPT ![p] = "ok"]
  /\ tx' = [tx EXCEPT ![p].open = FALSE]
  /\ last' = [note_id |-> call[p].note_id, result |-> call[p].result,
              seq |-> last.seq + 1]
  /\ UNCHANGED <<config, frontend, call, calls>>

\* a write of the transaction fails in the storage layer (validation comes
\* before the write, so an invalid description is never a storage fault)
StorageFault(p) ==
  /\ \/ pc[p] \in {"tag_insert", "commit"}
     \/ pc[p] = "tag_attach" /\ ~IsAttached(p, call[p].note_id, tx[p].tag)
     \/ /\ pc[p] = "item_create"
        /\ tx[p].j <= Len(call[p].result.action_items)
        /\ ValidDescription(CurDescription(p))
  /\ CanWrite(p)
  /\ Abort(p, "ApplyTransactionFailure")

\* the caller has its answer; the worker is free again
Return(p) ==
  /\ pc[p] = "done"
  /\ pc' = [pc EXCEPT ![p] = "idle"]
  /\ call' = [call EXCEPT ![p] = NoCall]
  /\ tx' = [tx EXCEPT ![p] = NoTx]
  /\ outcome' = [outcome EXCEPT ![p] = "none"]
  /\ UNCHANGED <<tags, note_tags, action_items, writeLock, config, frontend, calls, last>>

\* the steps of an open apply() transaction, and the return to the caller
TxStep(p) ==
  \/ TagLookup(p)
  \/ TagInsert(p)
  \/ TagRetry(p)
  \/ TagAttach(p)
  \/ ItemCreate(p)
  \/ Commit(p)
  \/ StorageFault(p)
  \/ Return(p)

(* --------------------------- specifications ---------------------------- *)
\* the extract-then-apply flows of two workers
Next ==
  \E p \in Workers :
    \/ \E t \in Texts, m \in Modes : StartExtract(p, t, m)
    \/ \E resp \in Responses : LlmReply(p, resp)
    \/ Preview(p)
    \/ \E n \in FlowNotes : ApplyExtracted(p, n)
    \/ TxStep(p)

Spec == Init /\ [][Next]_vars

\* extract() called by one worker at a time, over the texts of the extraction
\* checks and every mode
ExtractNext ==
  \E p \in {1} :
    \/ \E t \in ExtractTexts, m \in Modes : StartExtract(p, t, m)
    \/ \E resp \in Responses : LlmReply(p, resp)
    \/ Preview(p)
    \/ Return(p)

ExtractSpec == Init /\ [][ExtractNext]_vars

\* apply() called by two workers with results of the callers
ApplyNext ==
  \E p \in Workers :
    \/ \E n \in NoteIds, r \in ApplyResults : BeginApply(p, n, r)
    \/ TxStep(p)

ApplyInit == InitWith({[default_backend |-> "rule", fallback |-> FALSE]})

ApplySpec == ApplyInit /\ [][ApplyNext]_vars

\* apply() called by three workers with one tag name each
RaceNext ==
  \E p \in Procs :
    \/ \E n \in NoteIds, r \in RaceResults : BeginApply(p, n, r)
    \/ TxStep(p)

RaceSpec == ApplyInit /\ [][RaceNext]_vars

(* --------------------------- ActionItemCard ---------------------------- *)
\* the Complete button is rendered for an item that is not completed
ButtonShown(c) == ~c.completed

\* the Complete button is disabled while the card is completing
ButtonDisabled(c) == c.isCompleting

\* a handler that does not wait for onComplete before the button is free again
ClickCompleteNotAwaiting(i) ==
  /\ ButtonShown(cards[i]) /\ ~ButtonDisabled(cards[i])
  /\ cards[i].called < MaxRequests
  /\ cards' = [cards EXCEPT ![i].pending = @ + 1, ![i].called = @ + 1]
  /\ UNCHANGED <<backend, noteForm, tagManager, tagColor, notesList, itemsList>>

\* handleComplete: a click on the Complete button; the render that follows
\* setIsCompleting(true) is done before the next click is handled
ClickComplete(i) ==
  /\ ButtonShown(cards[i]) /\ ~ButtonDisabled(cards[i])
  /\ cards[i].called < MaxRequests
  /\ IF cards[i].isCompleting
       THEN UNCHANGED cards
       ELSE cards' = [cards EXCEPT ![i].isCompleting = TRUE, ![i].pending = @ + 1,
                                   ![i].called = @ + 1]
  /\ UNCHANGED <<backend, noteForm, tagManager, tagColor, notesList, itemsList>>

\* onComplete resolves: isCompleting is left as it is, the parent renders the
\* card again with the updated item
CompleteResolved(i) ==
  /\ cards[i].pending > 0
  /\ cards' = [cards EXCEPT ![i].pending = @ - 1]
  /\ UNCHANGED <<backend, noteForm, tagManager, tagColor, notesList, itemsList>>

\* onComplete rejects: the catch branch alerts and frees the button
CompleteRejected(i) ==
  /\ cards[i].pending > 0
  /\ cards' = [cards EXCEPT ![i].pending = @ - 1, ![i].isCompleting = FALSE]
  /\ UNCHANGED <<backend, noteForm, tagManager, tagColor, notesList, itemsList>>

\* the parent renders the card with another item.completed (its optimistic
\* update, a reload of the list)
ItemChanged(i) ==
  /\ cards' = [cards EXCEPT ![i].completed = ~@]
  /\ UNCHANGED <<backend, noteForm, tagManager, tagColor, notesList, itemsList>>

CardNext ==
  \E i \in ItemIds :
    \/ ClickComplete(i)
    \/ CompleteResolved(i)
    \/ CompleteRejected(i)
    \/ ItemChanged(i)

\* the cards are mounted with open and with completed items
CardInit ==
  /\ BackendInit({[default_backend |-> "rule", fallback |-> FALSE]})
  /\ cards \in [ItemIds -> {NoCard, [NoCard EXCEPT !.completed = TRUE]}]
  /\ noteForm = NoForm
  /\ tagManager = NoManager
  /\ tagColor = NoColor
  /\ notesList = NoNotesList
  /\ itemsList = NoItemsList

CardSpec == CardInit /\ [][CardNext]_vars

(* ------------------------------ NoteForm ------------------------------- *)
\* a test for the empty string alone
FieldMissingUntrimmed(v) == v = <<>>

\* !title.trim()
FieldMissing(v) == Trim(v) = <<>>

\* the inputs are disabled while submitting
InputsDisabled(f) == f.isSubmitting

\* the submit button is disabled while submitting and while a field is missing
SubmitDisabled(f) == f.isSubmitting \/ FieldMissing(f.title) \/ FieldMissing(f.content)

\* the note handed to onSubmit
NotePayload(f) == [title |-> Trim(f.title), content |-> Trim(f.content)]

\* onChange of the title input
ChangeTitle(v) ==
  /\ ~InputsDisabled(noteForm)
  /\ noteForm' = [noteForm EXCEPT !.title = v]
  /\ UNCHANGED <<backend, cards, tagManager, tagColor, notesList, itemsList>>

\* onChange of the content input
ChangeContent(v) ==
  /\ ~InputsDisabled(noteForm)
  /\ noteForm' = [noteForm EXCEPT !.content = v]
  /\ UNCHANGED <<backend, cards, tagManager, tagColor, notesList, itemsList>>

\* handleSubmit up to its await: the form is submitted through its button
SubmitForm ==
  /\ ~SubmitDisabled(noteForm)
  /\ noteForm.submitted < MaxRequests
  /\ IF FieldMissing(noteForm.title) \/ FieldMissing(noteForm.content)
       THEN noteForm' = [noteForm EXCEPT !.toast = "required"]
       ELSE noteForm' = [noteForm EXCEPT !.isSubmitting = TRUE,
                                         !.pending = <<NotePayload(noteForm)>>,
                                         !.submitted = @ + 1,
                                         !.settled = "none"]
  /\ UNCHANGED <<backend, cards, tagManager, tagColor, notesList, itemsList>>

\* onSubmit resolves: the fields are cleared, then finally
SubmitResolved ==
  /\ noteForm.pending # <<>>
  /\ noteForm' = [noteForm EXCEPT !.title = <<>>, !.content = <<>>,
                                    !.isSubmitting = FALSE, !.pending = <<>>,
                                    !.settled = "resolved"]
  /\ UNCHANGED <<backend, cards, tagManager, tagColor, notesList, itemsList>>

\* a catch branch that clears the fields as the success path does
SubmitRejectedClearing ==
  /\ noteForm.pending # <<>>
  /\ noteForm' = [noteForm EXCEPT !.title = <<>>, !.content = <<>>,
                                    !.isSubmitting = FALSE, !.pending = <<>>,
                                    !.settled = "rejected", !.toast = "failed"]
  /\ UNCHANGED <<backend, cards, tagManager, tagColor, notesList, itemsList>>

\* onSubmit rejects: the error is shown, then finally
SubmitRejected ==
  /\ noteForm.pending # <<>>
  /\ noteForm' = [noteForm EXCEPT !.isSubmitting = FALSE, !.pending = <<>>,
                                    !.settled = "rejected", !.toast = "failed"]
  /\ UNCHANGED <<backend, cards, tagManager, tagColor, notesList, itemsList>>

NoteFormNext ==
  \/ \E v \in FieldValues : ChangeTitle(v)
  \/ \E v \in FieldValues : ChangeContent(v)
  \/ SubmitForm
  \/ SubmitResolved
  \/ SubmitRejected

\* the form as mounted, the other components idle
NoteFormInit == InitWith({[default_backend |-> "rule", fallback |-> FALSE]})

NoteFormSpec == NoteFormInit /\ [][NoteFormNext]_vars

(* ------------------------------ TagManager ----------------------------- *)
\* /\s/.test(name)
HasSpace(n) == \E k \in 1..Len(n) : IsSpace(n[k])

\* /^[a-zA-Z0-9]/.test(name)
StartsAlnum(n) == n # <<>> /\ (IsDigit(n[1]) \/ n[1] \in 65..90 \/ n[1] \in 97..122)

\* a comparison of the names as they are written
TagExistsExact(list, n) == \E k \in 1..Len(list) : list[k].name = n

\* tags.some(tag => tag.name.toLowerCase() === trimmedName.toLowerCase())
TagExists(list, n) == \E k \in 1..Len(list) : CaseFold(list[k].name) = CaseFold(n)

\* the toggle button; expanding runs the effect that loads the tags,
\* collapsing runs its cleanup, which aborts the load
ToggleExpanded ==
  /\ IF tagManager.isExpanded
       THEN tagManager' = [tagManager EXCEPT !.isExpanded = FALSE, !.loading = FALSE]
       ELSE tagManager' = [tagManager EXCEPT !.isExpanded = TRUE, !.isLoading = TRUE,
                                             !.error = FALSE, !.loading = TRUE]
  /\ UNCHANGED <<backend, cards, noteForm, tagColor, notesList, itemsList>>

\* tagsApi.list resolves and the load was not aborted
LoadResolved(list) ==
  /\ tagManager.loading
  /\ tagManager' = [tagManager EXCEPT !.tags = list, !.isLoading = FALSE,
                                        !.loading = FALSE]
  /\ UNCHANGED <<backend, cards, noteForm, tagColor, notesList, itemsList>>

\* tagsApi.list rejects and the load was not aborted
LoadRejected ==
  /\ tagManager.loading
  /\ tagManager' = [tagManager EXCEPT !.error = TRUE, !.isLoading = FALSE,
                                        !.loading = FALSE]
  /\ UNCHANGED <<backend, cards, noteForm, tagColor, notesList, itemsList>>

\* onChange of the name input, which is disabled while creating
SetNewTagName(v) ==
  /\ tagManager.isExpanded /\ ~tagManager.isCreating
  /\ tagManager' = [tagManager EXCEPT !.newTagName = v]
  /\ UNCHANGED <<backend, cards, noteForm, tagColor, notesList, itemsList>>

\* handleCreateTag up to its await: the form is submitted through its button,
\* which is disabled while creating and while the name is blank
SubmitCreate ==
  /\ tagManager.isExpanded
  /\ ~(tagManager.isCreating \/ FieldMissing(tagManager.newTagName))
  /\ tagManager.requests < MaxRequests
  /\ LET trimmedName == Trim(tagManager.newTagName) IN
     IF trimmedName = <<>>
       THEN tagManager' = [tagManager EXCEPT !.toast = "required"]
     ELSE IF TagExists(tagManager.tags, trimmedName)
       THEN tagManager' = [tagManager EXCEPT !.toast = "exists"]
     ELSE IF HasSpace(trimmedName)
       THEN tagManager' = [tagManager EXCEPT !.toast = "spaces"]
     ELSE IF ~StartsAlnum(trimmedName)
       THEN tagManager' = [tagManager EXCEPT !.toast = "start"]
     ELSE tagManager' = [tagManager EXCEPT !.isCreating = TRUE,
                                           !.creating = <<trimmedName>>,
                                           !.requests = @ + 1]
  /\ UNCHANGED <<backend, cards, noteForm, tagColor, notesList, itemsList>>

\* tagsApi.create resolves with the created tag: it is appended to the list
CreateResolved ==
  /\ tagManager.creating # <<>>
  /\ tagManager' = [tagManager EXCEPT
                      !.tags = Append(@, [id |-> 1 + tagManager.requests,
                                          name |-> tagManager.creating[1]]),
                      !.newTagName = <<>>,
                      !.toast = "created",
                      !.isCreating = FALSE,
                      !.creating = <<>>]
  /\ UNCHANGED <<backend, cards, noteForm, tagColor, notesList, itemsList>>

\* tagsApi.create rejects: the error is shown
CreateRejected ==
  /\ tagManager.creating # <<>>
  /\ tagManager' = [tagManager EXCEPT !.toast = "failed", !.isCreating = FALSE,
                                        !.creating = <<>>]
  /\ UNCHANGED <<backend, cards, noteForm, tagColor, notesList, itemsList>>

handleDeleteTagOptimistic(tagId, confirmed) ==
  /\ tagManager.isExpanded
  /\ HasId(tagManager.tags, tagId)
  /\ tagId \notin tagManager.deletingTagIds
  /\ tagManager' = [tagManager EXCEPT !.tags = WithoutId(@, tagId),
                                        !.deleted = @ \cup {tagId},
                                        !.deletingTagIds = @ \cup {tagId},
                                        !.deleting = @ \cup {tagId},
                                        !.answer = "confirmed"]
  /\ UNCHANGED <<backend, cards, noteForm, tagColor, notesList, itemsList>>

\* handleDeleteTag up to its await, called by the delete button of a tag,
\* which is disabled while the tag is being deleted
handleDeleteTag(tagId, confirmed) ==
  /\ tagManager.isExpanded
  /\ HasId(tagManager.tags, tagId)
  /\ tagId \notin tagManager.deletingTagIds
  /\ IF ~confirmed
       THEN tagManager' = [tagManager EXCEPT !.answer = "declined"]
       ELSE tagManager' = [tagManager EXCEPT !.deletingTagIds = @ \cup {tagId},
                                             !.deleting = @ \cup {tagId},
                                             !.answer = "confirmed"]
  /\ UNCHANGED <<backend, cards, noteForm, tagColor, notesList, itemsList>>

\* tagsApi.delete resolves
TagDeleteResolved(tagId) ==
  /\ tagId \in tagManager.deleting
  /\ tagManager' = [tagManager EXCEPT !.tags = WithoutId(@, tagId),
                                        !.toast = "deleted",
                                        !.deleted = @ \cup {tagId},
                                        !.deletingTagIds = @ \ {tagId},
                                        !.deleting = @ \ {tagId}, !.answer = "resolved"]
  /\ UNCHANGED <<backend, cards, noteForm, tagColor, notesList, itemsList>>

\* tagsApi.delete rejects
TagDeleteRejected(tagId) ==
  /\ tagId \in tagManager.deleting
  /\ tagManager' = [tagManager EXCEPT !.toast = "failed",
                                        !.deletingTagIds = @ \ {tagId},
                                        !.deleting = @ \ {tagId}, !.answer = "rejected"]
  /\ UNCHANGED <<backend, cards, noteForm, tagColor, notesList, itemsList>>

TagManagerNext ==
  \/ ToggleExpanded
  \/ \E list \in ServerTagLists : LoadResolved(list)
  \/ LoadRejected
  \/ \E v \in TagNameInputs : SetNewTagName(v)
  \/ SubmitCreate
  \/ CreateResolved
  \/ CreateRejected

\* the manager as mounted, the other components idle
TagManagerInit == InitWith({[default_backend |-> "rule", fallback |-> FALSE]})

TagManagerSpec == TagManagerInit /\ [][TagManagerNext]_vars

\* the lists tagsApi.list answers with while tags are deleted
DeletableTagLists ==
  ServerTagLists \cup {<<[id |-> 1, name |-> TagLowerA], [id |-> 2, name |-> TagLowerB]>>}

\* loading and deleting tags
TagDeleteNext ==
  \/ ToggleExpanded
  \/ \E list \in DeletableTagLists : LoadResolved(list)
  \/ LoadRejected
  \/ \E tagId \in TagIds, confirmed \in BOOLEAN : handleDeleteTag(tagId, confirmed)
  \/ \E tagId \in TagIds : TagDeleteResolved(tagId)
  \/ \E tagId \in TagIds : TagDeleteRejected(tagId)

TagDeleteSpec == TagManagerInit /\ [][TagDeleteNext]_vars

(* ------------------------------ NotesList ------------------------------ *)
pageSize == 10

\* Math.ceil(totalResults / pageSize)
TotalPages(n) == (n + pageSize - 1) \div pageSize

MatchesAllFirst(note, sel) == sel[1] \in note.tags

\* the filter of the tag branch of loadNotes
MatchesAll(note, sel) == \A k \in 1..Len(sel) : sel[k] \in note.tags

MatchesSome(note, sel) == \E k \in 1..Len(sel) : sel[k] \in note.tags

FilterByTags(items, sel, mode) ==
  LET Keep(note) == IF mode = "AND" THEN MatchesAll(note, sel) ELSE MatchesSome(note, sel)
  IN  SelectSeq(items, Keep)

RunEffectNoAbort(nl) == [nl EXCEPT !.timer = TRUE]

\* the cleanup of the effect in force and the next run of the effect:
\* clearTimeout, abort, setTimeout
RunEffect(nl) ==
  [nl EXCEPT !.timer = TRUE, !.loads = {[l EXCEPT !.aborted = TRUE] : l \in @}]

\* the render after a batch of state updates: the effect runs again when a
\* dependency changed; newSelection tells that setSelectedTagIds was given a
\* new array
Render(old, new, newSelection) ==
  IF \/ newSelection
     \/ new.searchQuery # old.searchQuery
     \/ new.currentPage # old.currentPage
     \/ new.filterMode # old.filterMode
    THEN RunEffect(new)
    ELSE new

\* the timeout of the effect in force runs loadNotes up to its await
TimerFires ==
  /\ notesList.timer
  /\ notesList.sent < MaxRequests
  /\ LET nl == notesList
         kind == IF Len(nl.selectedTagIds) > 0 THEN "filter"
                 ELSE IF nl.searchQuery # <<>> THEN "search" ELSE "list"
         load == [aborted |-> FALSE, kind |-> kind, query |-> nl.searchQuery,
                  page |-> nl.currentPage, tags |-> nl.selectedTagIds,
                  mode |-> nl.filterMode]
     IN  notesList' = [nl EXCEPT !.timer = FALSE, !.isLoading = TRUE, !.error = FALSE,
                                 !.loads = @ \cup {load}, !.sent = @ + 1]
  /\ UNCHANGED <<backend, cards, noteForm, tagManager, tagColor, itemsList>>

\* the data loadNotes builds from a response with these items and this total
LoadData(l, items, total) ==
  IF l.kind = "filter"
    THEN LET filteredNotes == FilterByTags(items, l.tags, l.mode)
         IN  [items |-> filteredNotes, total |-> Len(filteredNotes), page |-> 1]
  ELSE IF l.kind = "search"
    THEN [items |-> items, total |-> total, page |-> l.page]
    ELSE [items |-> items, total |-> Len(items), page |-> 1]

\* notesApi.list or notesApi.search resolves
NotesLoadResolved(l, items, total) ==
  /\ l \in notesList.loads
  /\ LET nl == [notesList EXCEPT !.loads = @ \ {l}, !.ignored = l.aborted]
         data == LoadData(l, items, total)
     IN  IF l.aborted
           THEN notesList' = nl
           ELSE notesList' =
                  Render(nl, [nl EXCEPT !.notes = data.items, !.totalResults = data.total,
                                        !.currentPage = data.page, !.isLoading = FALSE],
                         FALSE)
  /\ UNCHANGED <<backend, cards, noteForm, tagManager, tagColor, itemsList>>

\* notesApi.list or notesApi.search rejects
NotesLoadRejected(l) ==
  /\ l \in notesList.loads
  /\ LET nl == [notesList EXCEPT !.loads = @ \ {l}, !.ignored = l.aborted]
     IN  IF l.aborted
           THEN notesList' = nl
           ELSE notesList' = [nl EXCEPT !.error = TRUE, !.isLoading = FALSE]
  /\ UNCHANGED <<backend, cards, noteForm, tagManager, tagColor, itemsList>>

\* onChange of the search box, which is disabled while tags are selected
handleSearchChange(v) ==
  /\ Len(notesList.selectedTagIds) = 0
  /\ v # notesList.searchQuery
  /\ LET nl == notesList
         clearTags == v # <<>> /\ Len(nl.selectedTagIds) > 0
     IN  notesList' =
           Render(nl, [nl EXCEPT !.searchQuery = v,
                                 !.selectedTagIds = IF clearTags THEN <<>> ELSE @,
                                 !.currentPage = 1, !.retried = FALSE],
                  clearTags)
  /\ UNCHANGED <<backend, cards, noteForm, tagManager, tagColor, itemsList>>

KeepSearchOnToggle(query, newSelected) == query

\* the search query after a toggle: cleared when tags are selected
SearchAfterToggle(query, newSelected) ==
  IF Len(newSelected) > 0 /\ query # <<>> THEN <<>> ELSE query

\* onTagToggle of the TagFilter
handleTagToggle(tagId) ==
  /\ LET nl == notesList
         prev == nl.selectedTagIds
         isSelected == \E k \in 1..Len(prev) : prev[k] = tagId
         Other(id) == id # tagId
         newSelected == IF isSelected THEN SelectSeq(prev, Other) ELSE Append(prev, tagId)
     IN  notesList' =
           Render(nl, [nl EXCEPT !.selectedTagIds = newSelected,
                                 !.searchQuery = SearchAfterToggle(@, newSelected),
                                 !.currentPage = 1, !.retried = FALSE],
                  TRUE)
  /\ UNCHANGED <<backend, cards, noteForm, tagManager, tagColor, itemsList>>

\* onClearFilters of the TagFilter
handleClearFilters ==
  /\ notesList' = Render(notesList, [notesList EXCEPT !.selectedTagIds = <<>>,
                                                      !.currentPage = 1, !.retried = FALSE],
                         TRUE)
  /\ UNCHANGED <<backend, cards, noteForm, tagManager, tagColor, itemsList>>

\* onFilterModeChange of the TagFilter
setFilterMode(mode) ==
  /\ mode # notesList.filterMode
  /\ notesList' = Render(notesList, [notesList EXCEPT !.filterMode = mode, !.retried = FALSE],
                         FALSE)
  /\ UNCHANGED <<backend, cards, noteForm, tagManager, tagColor, itemsList>>

\* the Retry button of the error panel: setSearchQuery((prev) => prev)
handleRetry ==
  /\ notesList.error
  /\ notesList' = Render(notesList, [notesList EXCEPT !.searchQuery = @, !.retried = TRUE],
                         FALSE)
  /\ UNCHANGED <<backend, cards, noteForm, tagManager, tagColor, itemsList>>

\* the pagination controls are rendered below the cards when there is more
\* than one page, and are disabled while loading
PaginationShown ==
  /\ Len(notesList.notes) > 0
  /\ notesList.totalResults > pageSize
  /\ ~notesList.isLoading

handlePreviousPage ==
  /\ PaginationShown
  /\ notesList.currentPage > 1
  /\ notesList' = Render(notesList, [notesList EXCEPT !.currentPage = @ - 1,
                                                      !.retried = FALSE], FALSE)
  /\ UNCHANGED <<backend, cards, noteForm, tagManager, tagColor, itemsList>>

handleNextPage ==
  /\ PaginationShown
  /\ notesList.currentPage < TotalPages(notesList.totalResults)
  /\ notesList' = Render(notesList, [notesList EXCEPT !.currentPage = @ + 1,
                                                      !.retried = FALSE], FALSE)
  /\ UNCHANGED <<backend, cards, noteForm, tagManager, tagColor, itemsList>>

\* a create, update or delete request in flight with what its handler closed
\* over: the notes and the search query of the render it was called in
NoteOp(kind, id) ==
  [kind |-> kind, id |-> id, previousNotes |-> notesList.notes,
   query |-> notesList.searchQuery]

Pending(kind, id) == \E op \in notesList.ops : op.kind = kind /\ op.id = id

\* handleCreateNote up to its await; the NoteForm awaits it, so that a second
\* note is submitted after the first create has settled
handleCreateNote ==
  /\ ~Pending("create", TempNote.id)
  /\ notesList.sent < MaxRequests
  /\ notesList' = [notesList EXCEPT !.notes = Append(@, TempNote),
                                    !.ops = @ \cup {NoteOp("create", TempNote.id)},
                                    !.sent = @ + 1, !.retried = FALSE]
  /\ UNCHANGED <<backend, cards, noteForm, tagManager, tagColor, itemsList>>

\* notesApi.create resolves
NoteCreateResolved(op) ==
  /\ op \in notesList.ops /\ op.kind = "create"
  /\ notesList' = [notesList EXCEPT !.notes = ReplaceId(@, op.id, CreatedNote),
                                    !.ops = @ \ {op}]
  /\ UNCHANGED <<backend, cards, noteForm, tagManager, tagColor, itemsList>>

\* notesApi.create rejects
NoteCreateRejected(op) ==
  /\ op \in notesList.ops /\ op.kind = "create"
  /\ notesList' = [notesList EXCEPT !.notes = WithoutId(@, op.id), !.ops = @ \ {op}]
  /\ UNCHANGED <<backend, cards, noteForm, tagManager, tagColor, itemsList>>

\* handleUpdateNote up to its await, called by the Save button of the card of
\* the note, which is disabled while the card is saving
handleUpdateNote(id) ==
  /\ HasId(notesList.notes, id)
  /\ ~Pending("update", id)
  /\ notesList.sent < MaxRequests
  /\ LET note == CHOOSE n \in {notesList.notes[k] : k \in 1..Len(notesList.notes)} : n.id = id
     IN  notesList' = [notesList EXCEPT
                         !.notes = ReplaceId(@, id, [note EXCEPT !.title = EditedTitle]),
                         !.ops = @ \cup {NoteOp("update", id)},
                         !.sent = @ + 1, !.retried = FALSE]
  /\ UNCHANGED <<backend, cards, noteForm, tagManager, tagColor, itemsList>>

\* notesApi.update resolves
NoteUpdateResolved(op) ==
  /\ op \in notesList.ops /\ op.kind = "update"
  /\ notesList' = [notesList EXCEPT !.ops = @ \ {op}]
  /\ UNCHANGED <<backend, cards, noteForm, tagManager, tagColor, itemsList>>

\* notesApi.update or notesApi.delete rejects: setNotes(previousNotes)
NoteOpRejected(op) ==
  /\ op \in notesList.ops /\ op.kind \in {"update", "delete"}
  /\ notesList' = [notesList EXCEPT !.notes = op.previousNotes, !.ops = @ \ {op}]
  /\ UNCHANGED <<backend, cards, noteForm, tagManager, tagColor, itemsList>>

\* handleDeleteNote up to its await, called by the Delete button of the card
\* of the note after the confirmation
handleDeleteNote(id) ==
  /\ HasId(notesList.notes, id)
  /\ ~Pending("delete", id)
  /\ notesList.sent < MaxRequests
  /\ notesList' = [notesList EXCEPT !.notes = WithoutId(@, id),
                                    !.ops = @ \cup {NoteOp("delete", id)},
                                    !.sent = @ + 1, !.retried = FALSE]
  /\ UNCHANGED <<backend, cards, noteForm, tagManager, tagColor, itemsList>>

\* notesApi.delete resolves
NoteDeleteResolved(op) ==
  /\ op \in notesList.ops /\ op.kind = "delete"
  /\ LET nl == [notesList EXCEPT !.ops = @ \ {op}]
     IN  notesList' = Render(nl, [nl EXCEPT !.currentPage = IF op.query # <<>> THEN 1 ELSE @],
                             FALSE)
  /\ UNCHANGED <<backend, cards, noteForm, tagManager, tagColor, itemsList>>

NoteIdsShown == {1, 2, 3, 9}

\* searching, filtering and paging
NotesNext ==
  \/ TimerFires
  \/ \E l \in notesList.loads, items \in ServerNoteLists, total \in SearchTotals :
       NotesLoadResolved(l, items, total)
  \/ \E l \in notesList.loads : NotesLoadRejected(l)
  \/ \E v \in Queries : handleSearchChange(v)
  \/ \E tagId \in TagIds : handleTagToggle(tagId)
  \/ handleClearFilters
  \/ \E mode \in {"AND", "OR"} : setFilterMode(mode)
  \/ handleRetry
  \/ handlePreviousPage
  \/ handleNextPage

\* creating, updating and deleting notes while the list loads
NoteOpsNext ==
  \/ TimerFires
  \/ \E l \in notesList.loads, items \in ServerNoteLists, total \in SearchTotals :
       NotesLoadResolved(l, items, total)
  \/ \E l \in notesList.loads : NotesLoadRejected(l)
  \/ handleCreateNote
  \/ \E id \in NoteIdsShown : handleUpdateNote(id) \/ handleDeleteNote(id)
  \/ \E op \in notesList.ops :
       \/ NoteCreateResolved(op)
       \/ NoteCreateRejected(op)
       \/ NoteUpdateResolved(op)
       \/ NoteDeleteResolved(op)
       \/ NoteOpRejected(op)

NotesInit == InitWith({[default_backend |-> "rule", fallback |-> FALSE]})

NotesSpec == NotesInit /\ [][NotesNext]_vars

NoteOpsSpec == NotesInit /\ [][NoteOpsNext]_vars

(* --------------------------- ActionItemsList --------------------------- *)
Filters == {"all", "active", "completed"}

\* the items GET /action-items/ answers with for this completed parameter
ItemsOnServer(server, param) ==
  LET all == [i \in 1..Cardinality(ItemIds) |-> [id |-> i, completed |-> server[i]]]
      Asked(item) == \/ param = "all"
                     \/ param = "active" /\ ~item.completed
                     \/ param = "completed" /\ item.completed
  IN  SelectSeq(all, Asked)

\* prev.map((item) => (ids.has(item.id) ? { ...item, completed: true } : item))
MarkCompleted(list, ids) ==
  [k \in 1..Len(list) |-> IF list[k].id \in ids THEN [list[k] EXCEPT !.completed = TRUE]
                          ELSE list[k]]

\* the list is rendered: neither the loading line nor the error panel
ListShown == ~itemsList.isLoading /\ ~itemsList.error

\* loadItems up to its await
StartLoad(il, param, then) ==
  [il EXCEPT !.isLoading = TRUE, !.error = FALSE, !.sent = @ + 1,
             !.loads = @ \cup {[param |-> param, then |-> then]}]

AfterLoadKeepingSelection(il, then) ==
  IF then \in {"bulkSuccess", "bulkFailure"}
    THEN [il EXCEPT !.isBulkCompleting = FALSE,
                    !.ended = IF then = "bulkSuccess" THEN "success" ELSE "failure"]
    ELSE il

\* what the caller of loadItems does when it returns: handleBulkComplete
\* clears the selection after a success and resets isBulkCompleting
AfterLoad(il, then) ==
  IF then = "bulkSuccess"
    THEN [il EXCEPT !.selectedIds = {}, !.isBulkCompleting = FALSE, !.ended = "success"]
  ELSE IF then = "bulkFailure"
    THEN [il EXCEPT !.isBulkCompleting = FALSE, !.ended = "failure"]
    ELSE il

\* actionItemsApi.list resolves
ItemsLoadResolved(l) ==
  /\ l \in itemsList.loads
  /\ LET il == [itemsList EXCEPT !.loads = @ \ {l}, !.ended = "none"]
     IN  itemsList' =
           AfterLoad([il EXCEPT !.items = ItemsOnServer(il.server, l.param),
                                !.selectedIds = {}, !.isLoading = FALSE], l.then)
  /\ UNCHANGED <<backend, cards, noteForm, tagManager, tagColor, notesList>>

\* actionItemsApi.list rejects
ItemsLoadRejected(l) ==
  /\ l \in itemsList.loads
  /\ LET il == [itemsList EXCEPT !.loads = @ \ {l}, !.ended = "none"]
     IN  itemsList' = AfterLoad([il EXCEPT !.error = TRUE, !.isLoading = FALSE], l.then)
  /\ UNCHANGED <<backend, cards, noteForm, tagManager, tagColor, notesList>>

\* a filter button: setFilter and the effect that loads the list
setFilter(f) ==
  /\ ListShown
  /\ f # itemsList.filter
  /\ itemsList.sent < MaxRequests
  /\ itemsList' = StartLoad([itemsList EXCEPT !.filter = f, !.ended = "none"], f, "none")
  /\ UNCHANGED <<backend, cards, noteForm, tagManager, tagColor, notesList>>

\* the Retry button of the error panel: loadItems()
ItemsRetry ==
  /\ itemsList.error /\ ~itemsList.isLoading
  /\ itemsList.sent < MaxRequests
  /\ itemsList' = StartLoad([itemsList EXCEPT !.ended = "none"], "all", "none")
  /\ UNCHANGED <<backend, cards, noteForm, tagManager, tagColor, notesList>>

\* the checkbox of a card
handleToggleSelect(id) ==
  /\ ListShown
  /\ itemsList.filter # "completed"
  /\ HasId(itemsList.items, id)
  /\ itemsList' = [itemsList EXCEPT
                     !.selectedIds = IF id \in @ THEN @ \ {id} ELSE @ \cup {id},
                     !.ended = "none"]
  /\ UNCHANGED <<backend, cards, noteForm, tagManager, tagColor, notesList>>

\* handleCompleteItem up to its await, called by the Complete button of the
\* card of an open item
handleCompleteItem(id) ==
  /\ ListShown
  /\ \E k \in 1..Len(itemsList.items) :
       itemsList.items[k].id = id /\ ~itemsList.items[k].completed
  /\ itemsList.sent < MaxRequests
  /\ itemsList' = [itemsList EXCEPT
                     !.items = MarkCompleted(@, {id}),
                     !.completes = @ \cup {[id |-> id, filter |-> itemsList.filter]},
                     !.sent = @ + 1, !.ended = "none"]
  /\ UNCHANGED <<backend, cards, noteForm, tagManager, tagColor, notesList>>

\* actionItemsApi.complete resolves: the server holds the item as completed
ItemCompleteResolved(c) ==
  /\ c \in itemsList.completes
  /\ itemsList' = [itemsList EXCEPT !.completes = @ \ {c}, !.server[c.id] = TRUE,
                                    !.ended = "none"]
  /\ UNCHANGED <<backend, cards, noteForm, tagManager, tagColor, notesList>>

\* actionItemsApi.complete rejects: loadItems with the filter the handler
\* closed over, then the error is thrown to the card
ItemCompleteRejected(c) ==
  /\ c \in itemsList.completes
  /\ itemsList.sent < MaxRequests
  /\ itemsList' = StartLoad([itemsList EXCEPT !.completes = @ \ {c}, !.ended = "none"],
                            c.filter, "rethrow")
  /\ UNCHANGED <<backend, cards, noteForm, tagManager, tagColor, notesList>>

\* the selected ids whose item is open
SelectedActive(il) ==
  {id \in il.selectedIds :
     \E k \in 1..Len(il.items) : il.items[k].id = id /\ ~il.items[k].completed}

\* the bulk button is rendered and enabled
BulkButtonEnabled(il) ==
  /\ ~il.isLoading /\ ~il.error
  /\ il.filter # "completed"
  /\ Cardinality(SelectedActive(il)) > 0
  /\ ~il.isBulkCompleting

\* the early returns of handleBulkComplete do not apply
BulkAllowed(il) ==
  LET previouslyCompletedItems ==
        {k \in 1..Len(il.items) : il.items[k].id \in il.selectedIds /\ il.items[k].completed}
  IN  /\ ~(Cardinality(il.selectedIds) = 0 \/ il.isBulkCompleting)
      /\ Cardinality(previouslyCompletedItems) # Cardinality(il.selectedIds)

\* handleBulkComplete up to its await
handleBulkComplete ==
  /\ BulkButtonEnabled(itemsList)
  /\ itemsList.sent < MaxRequests
  /\ IF BulkAllowed(itemsList)
       THEN itemsList' =
              [itemsList EXCEPT
                 !.items = MarkCompleted(@, itemsList.selectedIds),
                 !.isBulkCompleting = TRUE,
                 !.bulks = @ \cup {[ids |-> itemsList.selectedIds,
                                    filter |-> itemsList.filter, n |-> itemsList.sent]},
                 !.sent = @ + 1, !.ended = "none"]
       ELSE itemsList' = [itemsList EXCEPT !.ended = "none"]
  /\ UNCHANGED <<backend, cards, noteForm, tagManager, tagColor, notesList>>

\* actionItemsApi.bulkComplete resolves: the server holds the items as
\* completed and the list is reloaded
BulkResolved(b) ==
  /\ b \in itemsList.bulks
  /\ itemsList.sent < MaxRequests
  /\ itemsList' =
       StartLoad([itemsList EXCEPT
                    !.bulks = @ \ {b},
                    !.server = [i \in ItemIds |-> IF i \in b.ids THEN TRUE ELSE @[i]],
                    !.ended = "none"],
                 b.filter, "bulkSuccess")
  /\ UNCHANGED <<backend, cards, noteForm, tagManager, tagColor, notesList>>

\* actionItemsApi.bulkComplete rejects: the list is reloaded
BulkRejected(b) ==
  /\ b \in itemsList.bulks
  /\ itemsList.sent < MaxRequests
  /\ itemsList' = StartLoad([itemsList EXCEPT !.bulks = @ \ {b}, !.ended = "none"],
                            b.filter, "bulkFailure")
  /\ UNCHANGED <<backend, cards, noteForm, tagManager, tagColor, notesList>>

ItemsNext ==
  \/ \E l \in itemsList.loads : ItemsLoadResolved(l) \/ ItemsLoadRejected(l)
  \/ \E f \in Filters : setFilter(f)
  \/ ItemsRetry
  \/ \E id \in ItemIds : handleToggleSelect(id) \/ handleCompleteItem(id)
  \/ \E c \in itemsList.completes : ItemCompleteResolved(c) \/ ItemCompleteRejected(c)
  \/ handleBulkComplete
  \/ \E b \in itemsList.bulks : BulkResolved(b) \/ BulkRejected(b)

\* the server holds any of the items as completed
ItemsInit ==
  /\ BackendInit({[default_backend |-> "rule", fallback |-> FALSE]})
  /\ cards = [i \in ItemIds |-> NoCard]
  /\ noteForm = NoForm
  /\ tagManager = NoManager
  /\ tagColor = NoColor
  /\ notesList = NoNotesList
  /\ \E server \in [ItemIds -> BOOLEAN] : itemsList = [NoItemsList EXCEPT !.server = server]

ItemsSpec == ItemsInit /\ [][ItemsNext]_vars

(* ------------------------------ getTagColor calls ---------------------- *)
CallGetTagColor(name) ==
  /\ ~tagColor.running
  /\ tagColor.calls < MaxCalls
  /\ tagColor' = [tagColor EXCEPT !.name = name, !.i = 0, !.hash = Zero,
                                  !.running = TRUE, !.calls = @ + 1]
  /\ UNCHANGED <<backend, cards, noteForm, tagManager, notesList, itemsList>>

NextChar ==
  /\ tagColor.running
  /\ tagColor.i < Len(tagColor.name)
  /\ tagColor' = [tagColor EXCEPT !.i = @ + 1,
                                  !.hash = HashChar(@, tagColor.name[tagColor.i + 1])]
  /\ UNCHANGED <<backend, cards, noteForm, tagManager, notesList, itemsList>>

ReturnColor ==
  /\ tagColor.running
  /\ tagColor.i = Len(tagColor.name)
  /\ tagColor' = [tagColor EXCEPT !.running = FALSE,
                    !.returned = @ \cup {[name |-> tagColor.name, hash |-> tagColor.hash,
                                          color |-> ColorOf(tagColor.hash)]}]
  /\ UNCHANGED <<backend, cards, noteForm, tagManager, notesList, itemsList>>

ColorNext ==
  \/ \E name \in ColorNames : CallGetTagColor(name)
  \/ NextChar
  \/ ReturnColor

ColorInit == InitWith({[default_backend |-> "rule", fallback |-> FALSE]})

ColorSpec == ColorInit /\ [][ColorNext]_vars

(* ------------------------------ claims --------------------------------- *)
\* worker p's apply() ends in this step with a commit
Commits(p) == pc[p] = "commit" /\ pc'[p] = "done" /\ outcome'[p] = "ok"

\* worker p's apply() ends in this step with an error
Fails(p) == pc[p] \in TxPcs /\ pc'[p] = "done" /\ outcome'[p] # "ok"

\* the committed rows whose name equals the name under case folding
RowsOfName(rows, name) == {r \in rows : CaseFold(r.name) = CaseFold(name)}

\* C1: after any sequence of apply() calls, sequential or concurrent, no two
\* Tag rows have names that are equal under case folding
C1_NoTwoTagsEqualUnderCaseFolding ==
  \A r1, r2 \in tags : CaseFold(r1.name) = CaseFold(r2.name) => r1 = r2

\* C2: when two concurrent apply() calls create the same new tag name, the
\* loser's uniqueness violation is caught and retried as a lookup: both calls
\* succeed and both notes are attached to the one row of that name (a call
\* stopped by a storage fault is not counted)
C2_RaceEndsOnOneRow ==
  \A p, q \in Procs :
    ( /\ p # q
      /\ pc[p] = "done" /\ pc[q] = "done"
      /\ Len(call[p].result.tags) = 1
      /\ call[q].result.tags = call[p].result.tags
      /\ outcome[p] = "ok" /\ tx[p].created # {}
      /\ tx[q].conflicts = 1
      /\ outcome[q] # "ApplyTransactionFailure" )
    => /\ outcome[q] = "ok"
       /\ tx[q].tag = tx[p].tag
       /\ BagIn(<<call[p].note_id, tx[p].tag>>, note_tags)
       /\ BagIn(<<call[q].note_id, tx[p].tag>>, note_tags)

\* C3: when an apply() call fails, the failure is raised to the caller and the
\* store is what it was: no pending Tag row, attachment or ActionItem of an
\* open or failed call is in the committed tables, and only a commit changes them
C3_FailedApplyLeavesNoWrites ==
  [][ /\ \A p \in Procs :
           Fails(p) =>
             /\ store' = store
             /\ outcome'[p] \in {"ValidationError", "ApplyTransactionFailure",
                                 "ReconciliationConflict"}
      /\ \A p \in Procs :
           tx[p].open =>
             /\ tx[p].created \cap tags = {}
             /\ tx[p].items \cap action_items = {}
             /\ \A a \in tx[p].attached : ~BagIn(a, note_tags)
      /\ (store' # store => \E p \in Procs : Commits(p)) ]_vars

\* an apply() failed on a storage fault after it had created a tag: none is stored
C3_Witness ==
  \E p \in Procs :
    /\ pc[p] = "done"
    /\ outcome[p] = "ApplyTransactionFailure"
    /\ tx[p].i > 1
    /\ tags = {}

\* a description the claim calls invalid: blank after trimming, or over 1000 characters
BlankOrTooLong(d) == Trim(d) = <<>> \/ Len(d) > 1000

HasBlankOrTooLong(ds) == \E k \in 1..Len(ds) : BlankOrTooLong(ds[k])

\* C4: apply() raises ValidationError when a description of result.action_items
\* is blank after trimming or longer than 1000 characters, at any position of
\* the list, and then nothing of the call is persisted
C4_InvalidDescriptionRejected ==
  [][ \A p \in Procs :
        (pc[p] \in TxPcs /\ HasBlankOrTooLong(call[p].result.action_items)) =>
          /\ pc'[p] = "done" =>
               /\ outcome'[p] \in {"ValidationError", "ApplyTransactionFailure"}
               /\ store' = store
          /\ ( /\ pc[p] = "item_create"
               /\ tx[p].j <= Len(call[p].result.action_items)
               /\ BlankOrTooLong(CurDescription(p))
               /\ pc'[p] # pc[p] )
             => outcome'[p] = "ValidationError" ]_vars

\* the second description was the blank one: a tag and the first item were pending
C4_Witness ==
  \E p \in Procs :
    /\ pc[p] = "done"
    /\ outcome[p] = "ValidationError"
    /\ tx[p].i = 2 /\ tx[p].j = 2
    /\ action_items = {}

\* worker p commits an apply() equal to the one committed just before, and no
\* other call committed since p's call began
RepeatsLast(p) ==
  /\ Commits(p)
  /\ last.seq > 0
  /\ tx[p].since = last.seq
  /\ last.note_id = call[p].note_id
  /\ last.result = call[p].result

\* C5: apply(noteId, r) called twice in succession with the same r: the second
\* call leaves the Tag rows and the note's attachments as the first left them
C5_SecondApplyChangesNoTags ==
  [][ \A p \in Procs : RepeatsLast(p) => tags' = tags /\ note_tags' = note_tags ]_vars

\* the tag rows of the name that note n is attached to
AttachedRows(n, name) ==
  {r \in RowsOfName(tags, name) : BagIn(<<n, r.id>>, note_tags)}

\* C6: apply() with a tag name whose case-folded form is the name of a tag
\* already attached to the note raises no error for it, creates no Tag row
\* and leaves the note's attachments as they were
C6_AttachedTagIsNoOp ==
  [][ \A p \in Procs :
        (pc[p] \in TxPcs /\ pc'[p] = "done" /\ tx[p].since = last.seq) =>
          \A k \in 1..Len(call[p].result.tags) :
            LET name == call[p].result.tags[k]
                n == call[p].note_id
            IN AttachedRows(n, name) # {} =>
                 /\ outcome'[p] # "ReconciliationConflict"
                 /\ RowsOfName(tags', name) = RowsOfName(tags, name)
                 /\ \A r \in RowsOfName(tags, name) :
                      CopiesIn(<<n, r.id>>, note_tags') = CopiesIn(<<n, r.id>>, note_tags)
    ]_vars

\* the reply is not JSON, or not the object of two arrays
MalformedReply(resp) ==
  /\ resp.kind = "reply"
  /\ ~resp.json \/ resp.tags.type # "array" \/ resp.action_items.type # "array"

\* C7: when the LLM backend's response is not valid JSON or does not match the
\* schema, extract() raises ExtractionParseError if fallback is disabled and
\* returns the rule backend's result for the same text if it is enabled
C7_ParseErrorFollowsPolicy ==
  \A p \in Procs :
    MalformedReply(call[p].response) =>
      IF config.fallback
        THEN /\ pc[p] \in {"extracted", "done"}
             /\ outcome[p] \in {"none", "ok"}
             /\ call[p].result = HeuristicExtract(call[p].text)
        ELSE /\ pc[p] = "done"
             /\ outcome[p] = "ExtractionParseError"

\* a reply with a string in place of the tags array, answered from the rule backend
C7_Witness ==
  \E p \in Procs :
    /\ call[p].response.json /\ call[p].response.tags.type = "string"
    /\ config.fallback
    /\ pc[p] = "extracted"
    /\ call[p].result.action_items # <<>>

\* C8: when the backend fails with ExtractionBackendUnavailable or
\* ExtractionBackendTimeout, extract() raises that error if fallback is
\* disabled, and never a result; it returns the rule backend's result for the
\* same text if fallback is enabled
C8_BackendFailureFollowsPolicy ==
  \A p \in Procs :
    call[p].response.kind \in {"refused", "timeout"} =>
      IF config.fallback
        THEN /\ pc[p] \in {"extracted", "done"}
             /\ outcome[p] \in {"none", "ok"}
             /\ call[p].result = HeuristicExtract(call[p].text)
        ELSE /\ pc[p] = "done"
             /\ outcome[p] = IF call[p].response.kind = "refused"
                               THEN "ExtractionBackendUnavailable"
                               ELSE "ExtractionBackendTimeout"
             /\ call[p].result = EmptyResult

\* the request timed out and the policy is to propagate
C8_Witness ==
  \E p \in Procs :
    /\ call[p].response.kind = "timeout"
    /\ ~config.fallback
    /\ outcome[p] = "ExtractionBackendTimeout"

\* worker p takes a step of extract(): the call, the endpoint's response, the return
ExtractStepOf(p) ==
  \/ pc[p] = "idle" /\ pc'[p] \in {"llm_wait", "extracted"}
  \/ pc[p] = "llm_wait" /\ pc'[p] \in {"extracted", "done"}
  \/ pc[p] = "extracted" /\ pc'[p] = "done"

\* C9: extract(text, mode) does not write the store: in every mode and for every
\* backend outcome the notes' tags, attachments and action items are unchanged
C9_ExtractLeavesStoreAlone ==
  [][ \A p \in Procs : ExtractStepOf(p) => store' = store ]_vars

\* an extraction by the LLM backend returned while the store held rows
C9_Witness ==
  \E p \in Procs :
    /\ pc[p] = "done" /\ outcome[p] = "ok"
    /\ call[p].response.kind = "reply"
    /\ tags # {} /\ action_items # {}

\* C10: the request to the inference endpoint is never in flight while the
\* worker's database transaction is open, and the transaction of a flow opens
\* only after its extraction has ended
C10_NoLlmRequestInsideTransaction ==
  \A p \in Procs :
    /\ ~(call[p].inflight /\ tx[p].open)
    /\ call[p].inflight => pc[p] = "llm_wait" /\ writeLock # p
    /\ tx[p].open => pc[p] \in TxPcs

\* a flow applies the LLM backend's result while another worker's request is in flight
C10_Witness ==
  \E p, q \in Procs :
    /\ tx[p].open /\ writeLock = p
    /\ call[p].result.tags = <<TagLowerB>>
    /\ call[q].inflight

\* worker p's step sends a request to the inference endpoint
SendsRequest(p) ==
  \/ call'[p].requests > call[p].requests
  \/ ~call[p].inflight /\ call'[p].inflight

\* C11: the StructuredExtractor sends at most one request to the inference
\* endpoint per extract() call: a request is sent only when the call starts,
\* and none is sent after a connection failure, a timeout or a parse error
C11_OneRequestPerExtract ==
  [][ \A p \in Procs :
        /\ SendsRequest(p) => pc[p] = "idle" /\ call'[p].requests = 1
        /\ call'[p].requests <= 1
        /\ (pc[p] = "llm_wait" /\ call'[p].response.kind # "none") =>
             ~call'[p].inflight /\ pc'[p] \in {"extracted", "done"} ]_vars

\* the one request timed out; the call ended with the rule backend's result
C11_Witness ==
  \E p \in Procs :
    /\ call[p].response.kind = "timeout"
    /\ call[p].requests = 1 /\ ~call[p].inflight
    /\ pc[p] = "extracted"

\* the classification the claim describes: the first matching rule's marker
\* is removed, the keyword prefix included
RECURSIVE ClaimedCandidates(_)
ClaimedCandidates(ls) ==
  IF ls = <<>> THEN <<>>
  ELSE LET l == Head(ls) IN
       (IF IsCheckbox(l)
          THEN <<Trim(Drop(l, Len(CHOOSE m \in CheckboxMarkers : StartsWithFold(l, m))))>>
        ELSE IF IsBullet(l) THEN <<Trim(Drop(l, 2))>>
        ELSE IF IsNumbered(l) THEN <<Trim(Drop(l, Len(DigitRun(l)) + 2))>>
        ELSE IF IsKeyword(l)
          THEN <<Trim(Drop(l, Len(CHOOSE m \in KeywordPrefixes : StartsWithFold(l, m))))>>
        ELSE IF IsImperative(l) THEN <<l>>
        ELSE <<>>) \o ClaimedCandidates(Tail(ls))

\* worker p has the answer of an extract() served by the rule backend
RuleAnswered(p) == call[p].backend = "rule" /\ pc[p] \in {"extracted", "done"}

\* C12: the rule backend classifies every normalized line on its own, in input
\* order, by the first matching rule in the order checkbox, bullet, numbered,
\* keyword prefix, imperative verb; the candidate is the line with that rule's
\* marker removed, and a line matching no rule yields no action item
C12_RuleClassifiesByFirstMatch ==
  \A p \in Procs :
    RuleAnswered(p) =>
      call[p].result.action_items =
        DedupExact(ClaimedCandidates(NormalizeLines(call[p].text)))

\* the position of the first token of q that equals x ignoring case
FirstIndex(q, x) ==
  CHOOSE k \in 1..Len(q) :
    /\ CaseFold(q[k]) = CaseFold(x)
    /\ \A m \in 1..(k - 1) : CaseFold(q[m]) # CaseFold(x)

\* C13: extract() with the rule backend returns one tag per case-insensitively
\* distinct #token of the text, in order of first appearance and in the letter
\* case of the first occurrence, whether or not the token sits in an
\* action-item line
C13_RuleTagsAreFirstOccurrences ==
  \A p \in Procs :
    RuleAnswered(p) =>
      LET toks == ScanTags(call[p].text)
          ts == call[p].result.tags
      IN /\ \A k \in 1..Len(toks) :
              \E m \in 1..Len(ts) : CaseFold(ts[m]) = CaseFold(toks[k])
         /\ \A m \in 1..Len(ts) :
              /\ \E k \in 1..Len(toks) : CaseFold(toks[k]) = CaseFold(ts[m])
              /\ ts[m] = toks[FirstIndex(toks, ts[m])]
         /\ \A m1, m2 \in 1..Len(ts) :
              m1 < m2 => FirstIndex(toks, ts[m1]) < FirstIndex(toks, ts[m2])

\* "1. fix #a\nnote #A #b": three tokens, one of them in an action-item line
C13_Witness ==
  \E p \in Procs :
    /\ RuleAnswered(p)
    /\ Len(ScanTags(call[p].text)) = 3
    /\ call[p].result.tags = <<TagLowerA, TagLowerB>>
    /\ call[p].result.action_items # <<>>

\* worker p has a result of extract(), from either backend
HasResult(p) ==
  /\ call[p].backend # "none"
  /\ pc[p] \in {"extracted", "done"}
  /\ outcome[p] \in {"none", "ok"}

\* C14: every ExtractionResult returned by extract(), in rule mode, in llm mode
\* after the cleanup pass and on the fallback path, has tags pairwise distinct
\* ignoring case and action items pairwise distinct as trimmed strings
C14_ResultHasNoDuplicates ==
  \A p \in Procs :
    HasResult(p) =>
      LET ts == call[p].result.tags
          as == call[p].result.action_items
      IN /\ \A m1, m2 \in 1..Len(ts) :
              CaseFold(ts[m1]) = CaseFold(ts[m2]) => m1 = m2
         /\ \A k1, k2 \in 1..Len(as) : Trim(as[k1]) = Trim(as[k2]) => k1 = k2

\* the reply {tags: ["b", "B"], action_items: ["- x", "x"]} became one tag, one item
C14_Witness ==
  \E p \in Procs :
    /\ HasResult(p)
    /\ call[p].response.json
    /\ Len(call[p].response.tags.items) = 2
    /\ Len(call[p].response.action_items.items) = 2
    /\ call[p].result = [tags |-> <<TagLowerB>>, action_items |-> <<DescX>>]

\* C15: extract() on empty or whitespace-only text returns
\* {tags: [], action_items: []} and raises nothing, in every mode
C15_EmptyTextGivesEmptyResult ==
  \A p \in Procs :
    (call[p].backend # "none" /\ \A k \in 1..Len(call[p].text) : IsSpace(call[p].text[k])) =>
      /\ outcome[p] \in {"none", "ok"}
      /\ pc[p] \in {"extracted", "done"}
      /\ call[p].result = EmptyResult

\* whitespace-only text in llm mode, with no fallback configured
C15_Witness ==
  \E p \in Procs :
    /\ call[p].mode = "llm" /\ ~config.fallback
    /\ call[p].text # <<>>
    /\ \A k \in 1..Len(call[p].text) : IsSpace(call[p].text[k])
    /\ pc[p] = "done" /\ outcome[p] = "ok"

\* C16: extract(text, rule) uses the HeuristicExtractor and never contacts the
\* inference endpoint, extract(text, llm) uses the StructuredExtractor,
\* whatever the configured default backend is; only mode default follows the
\* configuration, and no call changes the configuration or the backend of
\* another call
C16_ModeForcesBackend ==
  [][ /\ config' = config
      /\ \A p \in Procs :
           /\ call'[p].mode = "rule" =>
                /\ call'[p].backend = "rule"
                /\ call'[p].requests = 0 /\ ~call'[p].inflight
                /\ call'[p].response = NoResponse
                /\ call'[p].result = HeuristicExtract(call'[p].text)
           /\ call'[p].mode = "llm" => call'[p].backend = "llm"
           /\ call'[p].mode = "default" => call'[p].backend = config.default_backend
           /\ \A q \in Procs \ {p} :
                pc'[p] # pc[p] => call'[q].backend = call[q].backend ]_vars

\* rule mode under the default backend llm, while another call in mode default
\* waits for the endpoint
C16_Witness ==
  \E p, q \in Procs :
    /\ config.default_backend = "llm"
    /\ call[p].mode = "rule" /\ pc[p] = "done"
    /\ call[q].mode = "default" /\ pc[q] = "llm_wait"

\* C17: while an onComplete call started from an ActionItemCard is pending,
\* further clicks on its Complete button do not call onComplete again: at most
\* one completion request per card is in flight, and onComplete is never
\* called for an item that is already completed
C17_OneCompletionInFlight ==
  [][ \A i \in ItemIds :
        /\ cards'[i].pending <= 1
        /\ cards'[i].called > cards[i].called =>
             /\ cards[i].pending = 0
             /\ ~cards[i].completed ]_vars

\* a first completion failed, the second one is pending
C17_Witness ==
  \E i \in ItemIds :
    /\ cards[i].called = 2
    /\ cards[i].pending = 1
    /\ cards[i].isCompleting

\* the string is nothing but whitespace
AllSpace(v) == \A k \in 1..Len(v) : IsSpace(v[k])

\* t is v without the whitespace at its two ends
IsTrimOf(t, v) ==
  /\ t = <<>> \/ (~IsSpace(t[1]) /\ ~IsSpace(t[Len(t)]))
  /\ \E a \in 0..Len(v) :
       /\ a + Len(t) <= Len(v)
       /\ SubSeq(v, a + 1, a + Len(t)) = t
       /\ AllSpace(SubSeq(v, 1, a))
       /\ AllSpace(SubSeq(v, a + Len(t) + 1, Len(v)))

\* C18: NoteForm never calls onSubmit when the title or the content is empty or
\* whitespace-only, and whenever it calls onSubmit the title and content it
\* passes are the trimmed input values
C18_SubmitsTrimmedNonBlank ==
  [][ noteForm'.submitted > noteForm.submitted =>
        /\ ~AllSpace(noteForm.title) /\ ~AllSpace(noteForm.content)
        /\ Len(noteForm'.pending) = 1
        /\ IsTrimOf(noteForm'.pending[1].title, noteForm.title)
        /\ IsTrimOf(noteForm'.pending[1].content, noteForm.content) ]_vars

\* " a " was typed as the title: onSubmit has the title "a"
C18_Witness ==
  /\ noteForm.title = <<SP, 97, SP>>
  /\ noteForm.pending = <<[title |-> <<97>>, content |-> <<97>>]>>

\* C19: NoteForm is disabled while a submission is pending, clears its title
\* and content only after onSubmit resolves, keeps both fields unchanged when
\* onSubmit rejects, and in both cases returns to the not-submitting state
C19_FormFollowsSubmission ==
  [][ /\ noteForm'.pending # <<>> =>
           InputsDisabled(noteForm') /\ SubmitDisabled(noteForm')
      /\ (noteForm.pending # <<>> /\ noteForm' # noteForm) =>
           /\ noteForm'.pending = <<>>
           /\ ~noteForm'.isSubmitting
           /\ noteForm'.settled \in {"resolved", "rejected"}
           /\ noteForm'.settled = "resolved" =>
                noteForm'.title = <<>> /\ noteForm'.content = <<>>
           /\ noteForm'.settled = "rejected" =>
                noteForm'.title = noteForm.title /\ noteForm'.content = noteForm.content
      /\ (noteForm.pending = <<>> /\ noteForm'.pending = <<>>) =>
           ~noteForm'.isSubmitting ]_vars

\* a submission was rejected: the fields are still filled, the form is free again
C19_Witness ==
  /\ noteForm.settled = "rejected"
  /\ noteForm.title = <<SP, 97, SP>> /\ noteForm.content = <<97>>
  /\ ~noteForm.isSubmitting /\ noteForm.pending = <<>>

\* the name the claim allows for tagsApi.create, given the loaded list
AllowedTagName(n, list) ==
  /\ n # <<>>
  /\ \A k \in 1..Len(n) : ~IsSpace(n[k])
  /\ n[1] \in (48..57) \cup (65..90) \cup (97..122)
  /\ \A k \in 1..Len(list) : CaseFold(list[k].name) # CaseFold(n)

\* the typed name, trimmed, is a name the claim allows
AllowedInput(v, list) ==
  \E a, b \in 0..Len(v) :
    /\ a + b <= Len(v)
    /\ IsTrimOf(SubSeq(v, a + 1, Len(v) - b), v)
    /\ AllowedTagName(SubSeq(v, a + 1, Len(v) - b), list)

\* C20: TagManager calls tagsApi.create only with a trimmed name that is
\* non-empty, contains no whitespace, starts with a letter or digit and is not
\* equal, ignoring case, to the name of a tag in its loaded list; on a submit
\* of any other input no request is sent and the tag list is unchanged
C20_CreateOnlyValidNewName ==
  [][ /\ tagManager'.requests > tagManager.requests =>
           /\ Len(tagManager'.creating) = 1
           /\ IsTrimOf(tagManager'.creating[1], tagManager.newTagName)
           /\ AllowedTagName(tagManager'.creating[1], tagManager.tags)
      /\ ( /\ ~tagManager.isCreating
           /\ tagManager'.toast # tagManager.toast
           /\ ~AllowedInput(tagManager.newTagName, tagManager.tags) )
         => /\ tagManager'.requests = tagManager.requests
            /\ tagManager'.creating = <<>>
            /\ tagManager'.tags = tagManager.tags ]_vars

\* "A" was refused because the list holds "a"; then "b" was sent
C20_Witness ==
  /\ tagManager.toast = "exists"
  /\ tagManager.creating = <<TagLowerB>>
  /\ \E k \in 1..Len(tagManager.tags) : tagManager.tags[k].name = TagLowerA

\* C21: every colour getTagColor has returned has its hue in [0, 360), its
\* saturation in [60, 80] and its lightness in [85, 95], and two calls with the
\* same name returned the same colour; this covers the empty name and names
\* whose hash is negative or leaves the 32-bit range
C21_TagColorInRange ==
  \A r \in tagColor.returned :
    /\ r.color.hue \in 0..359
    /\ r.color.saturation \in 60..80
    /\ r.color.lightness \in 85..95
    /\ \A q \in tagColor.returned : q.name = r.name => q.color = r.color

\* the empty name and a name whose hash is negative and outside the 32-bit
\* range have been coloured, one of them twice
C21_Witness ==
  /\ \E r \in tagColor.returned : r.name = <<>>
  /\ \E r \in tagColor.returned : r.hash.hi < 0 /\ ToInt32(r.hash) # r.hash
  /\ tagColor.calls > Cardinality(tagColor.returned)

\* a load for the values in force is scheduled or in flight
LoadIssued(nl) == nl.timer \/ \E l \in nl.loads : ~l.aborted

\* C23: a click on the Retry button of the error panel of NotesList leaves a
\* load request for the search query, page and tag filter in force scheduled
\* or in flight
C23_RetryIssuesLoad ==
  [][(notesList'.retried /\ ~notesList.retried) => LoadIssued(notesList')]_vars

Range(seq) == {seq[k] : k \in 1..Len(seq)}

\* the note carries every selected tag in AND mode, one of them in OR mode
Carries(note, selected, mode) ==
  IF mode = "AND" THEN selected \subseteq note.tags ELSE selected \cap note.tags # {}

\* C24: when the list request of the tag selection in force resolves, the
\* notes of NotesList are exactly the notes of the response that carry every
\* selected tag in AND mode, at least one selected tag in OR mode
C24_TagFilterShowsMatching ==
  [][\A l \in notesList.loads, items \in ServerNoteLists :
       (/\ Len(notesList.selectedTagIds) > 0
        /\ ~l.aborted
        /\ NotesLoadResolved(l, items, 1))
       => /\ Range(notesList'.notes) =
               {n \in Range(items) : Carries(n, Range(notesList.selectedTagIds),
                                             notesList.filterMode)}
          /\ Len(notesList'.notes) = Cardinality(Range(notesList'.notes))]_vars

\* both tags are selected in AND mode and the load has shown the one note of
\* the response that carries both
C24_Witness ==
  /\ Len(notesList.selectedTagIds) = 2
  /\ notesList.filterMode = "AND"
  /\ ~notesList.isLoading
  /\ notesList.notes = <<NoteB>>

\* what a load may update
LoadedState(nl) == <<nl.notes, nl.totalResults, nl.currentPage, nl.error, nl.isLoading>>

\* the values the effect of a load closed over are the values in force
Latest(l, nl) ==
  /\ l.query = nl.searchQuery
  /\ l.page = nl.currentPage
  /\ l.tags = nl.selectedTagIds
  /\ l.mode = nl.filterMode

\* C27: when a load settles that was superseded by a change of search query,
\* page, tag selection or filter mode, notes, totalResults, currentPage, error
\* and isLoading stay as they are; at most one load in flight is not
\* superseded, and a load starts with the values in force, never with the
\* values of a timeout that was cleared
C27_OnlyLatestLoadUpdates ==
  [][/\ \A l \in notesList.loads :
          (l \notin notesList'.loads /\ (l.aborted \/ ~Latest(l, notesList)))
          => LoadedState(notesList') = LoadedState(notesList)
     /\ Cardinality({l \in notesList'.loads : ~l.aborted}) <= 1
     /\ \A l \in notesList'.loads \ notesList.loads : Latest(l, notesList)]_vars

\* a superseded search has settled and was ignored while the load of the new
\* values is still to come
C27_Witness ==
  /\ notesList.ignored
  /\ notesList.isLoading
  /\ notesList.sent > 1
  /\ LoadIssued(notesList)

\* C28: the search query and the tag selection of NotesList are never both
\* non-empty, and a tag toggle or a filter clear leaves the current page at 1
C28_SearchOrTagsNotBoth ==
  [][/\ ~(notesList'.searchQuery # <<>> /\ Len(notesList'.selectedTagIds) > 0)
     /\ ((\E tagId \in TagIds : handleTagToggle(tagId)) \/ handleClearFilters)
        => notesList'.currentPage = 1]_vars

\* a tag was toggled while page 2 of a search was loading: the tag is selected,
\* the query is empty and the page is 1
C28_Witness ==
  /\ Len(notesList.selectedTagIds) > 0
  /\ notesList.searchQuery = <<>>
  /\ notesList.currentPage = 1
  /\ \E l \in notesList.loads : l.aborted /\ l.kind = "search" /\ l.page = 2

\* the entries of the list with this id
EntriesOf(list, id) == {e \in Range(list) : e.id = id}

\* C22: an optimistic create appends the temporary entry at once; when the
\* create request resolves, the list holds the note the server returned and
\* no temporary entry; when it rejects, the temporary entry is removed and
\* every other entry is kept, whatever happened to the list in between
C22_CreateReplacesOrRemovesTemp ==
  [][/\ handleCreateNote => notesList'.notes = Append(notesList.notes, TempNote)
     /\ \A op \in notesList.ops :
          /\ NoteCreateResolved(op)
             => /\ HasId(notesList'.notes, CreatedNote.id)
                /\ ~HasId(notesList'.notes, op.id)
          /\ NoteCreateRejected(op)
             => /\ ~HasId(notesList'.notes, op.id)
                /\ \A id \in NoteIdsShown \ {op.id} :
                     EntriesOf(notesList'.notes, id) = EntriesOf(notesList.notes, id)]_vars

\* C26: when an optimistic update or delete is rejected and no other request
\* is pending, every note other than the one the request was about stays as
\* the operations completed in between left it
C26_RollbackUndoesOnlyItsOperation ==
  [][\A op \in notesList.ops :
       (NoteOpRejected(op) /\ notesList.ops = {op})
       => \A id \in NoteIdsShown \ {op.id} :
            EntriesOf(notesList'.notes, id) = EntriesOf(notesList.notes, id)]_vars

\* the item of the list with this id is shown as completed
ShownCompleted(il, id) == \E k \in 1..Len(il.items) : il.items[k].id = id /\ il.items[k].completed

\* C25: a bulk-complete request is sent only when an item is selected, a
\* selected item is open and no bulk completion is in progress, so that at
\* most one such request is in flight; the step that ends a bulk completion
\* is the return of the reload of the list, it leaves isBulkCompleting false
\* and, after a success, the selection empty
C25_BulkCompleteGuarded ==
  [][/\ itemsList'.bulks \ itemsList.bulks # {}
        => /\ itemsList.selectedIds # {}
           /\ \E id \in itemsList.selectedIds : ~ShownCompleted(itemsList, id)
           /\ ~itemsList.isBulkCompleting
           /\ itemsList.bulks = {}
     /\ Cardinality(itemsList'.bulks) <= 1
     /\ itemsList'.ended # "none"
        => /\ ~itemsList'.isBulkCompleting
           /\ \E l \in itemsList.loads \ itemsList'.loads :
                /\ l.then \in {"bulkSuccess", "bulkFailure"}
                /\ itemsList'.error \/ itemsList'.items = ItemsOnServer(itemsList.server, l.param)
           /\ itemsList'.ended = "success" => itemsList'.selectedIds = {}]_vars

\* a bulk completion of both items has ended by success although its reload
\* was rejected
C25_Witness ==
  /\ itemsList.ended = "success"
  /\ itemsList.error
  /\ \A i \in ItemIds : itemsList.server[i]
  /\ itemsList.selectedIds = {}

\* C30: when actionItemsApi.complete rejects, the list is requested from the
\* server with the filter in force, and when that request resolves an item is
\* shown as completed only if the server holds it as completed
C30_FailedCompleteReloads ==
  [][/\ \A c \in itemsList.completes :
          ItemCompleteRejected(c)
          => \E l \in itemsList'.loads : l.then = "rethrow" /\ l.param = itemsList'.filter
     /\ \A l \in itemsList.loads :
          (l.then = "rethrow" /\ ItemsLoadResolved(l))
          => \A i \in ItemIds : ShownCompleted(itemsList', i) => itemsList'.server[i]]_vars

\* C29: a tag leaves the list of TagManager, other than by a load, and
\* onTagDeleted is called only in the step in which its tagsApi.delete
\* request resolves; a declined confirmation sends no request; a rejected
\* request leaves the list as it is; a settled request leaves the id of its
\* tag out of deletingTagIds
C29_DeleteAfterSuccess ==
  [][/\ \A tagId \in TagIds :
          /\ ( \/ tagId \in tagManager'.deleted \ tagManager.deleted
               \/ /\ HasId(tagManager.tags, tagId) /\ ~HasId(tagManager'.tags, tagId)
                  /\ ~(tagManager.loading /\ ~tagManager'.loading) )
             => /\ tagId \in tagManager.deleting \ tagManager'.deleting
                /\ tagManager'.answer = "resolved"
                /\ tagId \in tagManager'.deleted
                /\ ~HasId(tagManager'.tags, tagId)
          /\ tagId \in tagManager.deleting \ tagManager'.deleting
             => tagId \notin tagManager'.deletingTagIds
     /\ (tagManager'.answer = "declined" /\ tagManager.answer # "declined")
        => tagManager'.deleting = tagManager.deleting
     /\ (tagManager'.answer = "rejected" /\ tagManager.answer # "rejected")
        => tagManager'.tags = tagManager.tags]_vars

\* tag 1 was deleted on the server and in the list while the request for
\* tag 2, which was rejected, left tag 2 in the list
C29_Witness ==
  /\ tagManager.answer = "rejected"
  /\ tagManager.deleted = {1}
  /\ tagManager.deletingTagIds = {}
  /\ HasId(tagManager.tags, 2) /\ ~HasId(tagManager.tags, 1)

====
